---- MODULE Spec2Model ----
(***************************************************************************)
(* Model of the skeleton component-composition engine:                     *)
(*   compose / renderComponent   (src/framework/compose.js)                *)
(*   escapeHtml                  (src/components/utils/escapeHtml.js)      *)
(*   normalizeClasses            (src/components/utils/normalizeClasses.js)*)
(*   processSlot                 (src/components/utils/processSlot.js)     *)
(*   validateProps/PropTypes     (utils/componentError.js)                 *)
(*   link, text, button, header  (leaf render functions)                   *)
(*   renderPage                  (the page shell)                          *)
(*   router                      (route table lookup)                      *)
(*                                                                         *)
(* A JavaScript string is a sequence of one-character strings, so that     *)
(* replace, split, trim, join and toLowerCase are computed character by    *)
(* character.  A JavaScript value is a record [t, v]: t is the runtime     *)
(* shape and v the payload (always a sequence).                            *)
(***************************************************************************)
EXTENDS Integers, Sequences, FiniteSets, TLC

VARIABLES
    heap,      \* descriptor objects of the caller, by identity (mutable)
    routes,    \* route table: each route's components list (a JS value)
    calls,     \* calls[r]: number of compose calls made for route r
    first,     \* first[r]: outcome of the first compose call for route r
    last,      \* last[r]: outcome of the latest compose call for route r
    pre,       \* heap as it was when the latest compose call started
    log,       \* render-function invocations of the latest compose call
    req,       \* route of the latest compose call (0 before the first)
    escIn,     \* argument of escapeHtml
    escOut,    \* value returned by escapeHtml
    clsIn,     \* argument of normalizeClasses
    clsOut,    \* normalizeClasses(clsIn)
    clsAgain,  \* normalizeClasses(normalizeClasses(clsIn))
    args,      \* arguments of the latest call of a utility or a render function
    ret        \* what that call gave: [t |-> "pending"] before it, then its outcome

vars == <<heap, routes, calls, first, last, pre, log, req,
          escIn, escOut, clsIn, clsOut, clsAgain, args, ret>>

composeVars == <<heap, routes, calls, first, last, pre, log, req>>
escVars == <<escIn, escOut>>
clsVars == <<clsIn, clsOut, clsAgain>>
unitVars == <<args, ret>>

(***************************************************************************)
(* Bounds.                                                                 *)
(***************************************************************************)
MaxStrLen == 3      \* longest escapeHtml argument
MaxCalls == 2       \* compose calls per route on the same descriptor tree

(***************************************************************************)
(* JavaScript values.                                                      *)
(***************************************************************************)
Undef == [t |-> "undefined", v |-> <<>>]
Null == [t |-> "null", v |-> <<>>]
Pending == [t |-> "pending", v |-> <<>>]
Str(s) == [t |-> "string", v |-> s]
Num(digits) == [t |-> "number", v |-> digits]
Bool(b) == [t |-> "boolean", v |-> IF b THEN <<"t","r","u","e">> ELSE <<"f","a","l","s","e">>]
Arr(items) == [t |-> "array", v |-> items]
Ref(id) == [t |-> "object", v |-> <<id>>]
ObjMap(entries) == [t |-> "map", v |-> entries]

(***************************************************************************)
(* The variables of an operation that a specification does not exercise.   *)
(***************************************************************************)
IdleHeap == <<>>
IdleRoutes == <<>>

ComposeIdle ==
    /\ heap = IdleHeap
    /\ routes = IdleRoutes
    /\ calls = <<>>
    /\ first = <<>>
    /\ last = <<>>
    /\ pre = IdleHeap
    /\ log = <<>>
    /\ req = 0

EscIdle == escIn = Undef /\ escOut = Pending
ClsIdle == clsIn = Undef /\ clsOut = Pending /\ clsAgain = Pending
UnitIdle == args = <<>> /\ ret = Pending

StringsUpTo(A, n) == UNION {[1..k -> A] : k \in 0..n}

\* s.includes(c) for a single character c
Includes(s, c) == \E i \in 1..Len(s) : s[i] = c

HasPrefixAt(s, i, p) ==
    /\ i + Len(p) - 1 <= Len(s)
    /\ SubSeq(s, i, i + Len(p) - 1) = p

\* String.prototype.replace(/c/g, rep)
RECURSIVE ReplaceAll(_, _, _)
ReplaceAll(s, c, rep) ==
    IF s = <<>> THEN <<>>
    ELSE (IF Head(s) = c THEN rep ELSE <<Head(s)>>) \o ReplaceAll(Tail(s), c, rep)

EntAmp == <<"&","a","m","p",";">>
EntLt == <<"&","l","t",";">>
EntGt == <<"&","g","t",";">>
EntQuot == <<"&","q","u","o","t",";">>
EntApos == <<"&","#","0","3","9",";">>
EntSlash == <<"&","#","x","2","F",";">>

(***************************************************************************)
(* escapeHtml: five sequential global replacements, '' for a non-string.   *)
(***************************************************************************)
\* the replacement of ' left out
escapeHtmlNoApos(unsafe) ==
    IF unsafe.t # "string" THEN <<>>
    ELSE ReplaceAll(ReplaceAll(ReplaceAll(ReplaceAll(unsafe.v,
             "&", EntAmp), "<", EntLt), ">", EntGt), "\"", EntQuot)

\* the replacement of & made last, after the four that produce entities
escapeHtmlAmpLast(unsafe) ==
    IF unsafe.t # "string" THEN <<>>
    ELSE ReplaceAll(ReplaceAll(ReplaceAll(ReplaceAll(ReplaceAll(unsafe.v,
             "<", EntLt), ">", EntGt), "\"", EntQuot), "'", EntApos), "&", EntAmp)

escapeHtml(unsafe) ==
    IF unsafe.t # "string" THEN <<>>
    ELSE ReplaceAll(ReplaceAll(ReplaceAll(ReplaceAll(ReplaceAll(unsafe.v,
             "&", EntAmp), "<", EntLt), ">", EntGt), "\"", EntQuot), "'", EntApos)

(***************************************************************************)
(* escapeAttr (utils/escapeAttr.js): the escapeHtml character set plus '/',*)
(* '' for a non-string.                                                    *)
(***************************************************************************)
escapeAttr(unsafe) ==
    IF unsafe.t # "string" THEN <<>>
    ELSE ReplaceAll(ReplaceAll(ReplaceAll(ReplaceAll(ReplaceAll(ReplaceAll(unsafe.v,
             "&", EntAmp), "<", EntLt), ">", EntGt), "\"", EntQuot), "'", EntApos),
             "/", EntSlash)

(***************************************************************************)
(* String helpers used by normalizeClasses and the render functions.       *)
(***************************************************************************)
\* the characters matched by \s that the inputs use
WS == {" ", "\t", "\n"}

\* JavaScript truthiness
Truthy(val) ==
    CASE val.t \in {"undefined", "null"} -> FALSE
      [] val.t = "string" -> val.v # <<>>
      [] val.t = "boolean" -> val = Bool(TRUE)
      [] val.t = "number" -> val.v # <<"0">>
      [] OTHER -> TRUE

\* index of the first non-whitespace character at or after i (Len(s)+1 if none)
RECURSIVE SkipWs(_, _)
SkipWs(s, i) ==
    IF i > Len(s) \/ s[i] \notin WS THEN i ELSE SkipWs(s, i + 1)

\* String.prototype.split(/\s+/): the pieces between whitespace runs,
\* an empty piece before a leading run and after a trailing run
RECURSIVE SplitFrom(_, _, _)
SplitFrom(s, i, cur) ==
    IF i > Len(s) THEN <<cur>>
    ELSE IF s[i] \in WS THEN <<cur>> \o SplitFrom(s, SkipWs(s, i), <<>>)
    ELSE SplitFrom(s, i + 1, Append(cur, s[i]))

SplitWs(s) == SplitFrom(s, 1, <<>>)

\* index of the last non-whitespace character at or before i (0 if none)
RECURSIVE SkipWsBack(_, _)
SkipWsBack(s, i) ==
    IF i < 1 \/ s[i] \notin WS THEN i ELSE SkipWsBack(s, i - 1)

\* String.prototype.trim()
Trim(s) == SubSeq(s, SkipWs(s, 1), SkipWsBack(s, Len(s)))

\* Array.prototype.join(sep) over an array of strings
RECURSIVE Join(_, _)
Join(strs, sep) ==
    IF strs = <<>> THEN <<>>
    ELSE IF Len(strs) = 1 THEN strs[1]
    ELSE strs[1] \o sep \o Join(Tail(strs), sep)

\* Array.prototype.indexOf (1-based; 0 when absent)
IndexOf(seq, x) ==
    IF \E i \in 1..Len(seq) : seq[i] = x
    THEN CHOOSE i \in 1..Len(seq) : seq[i] = x /\ \A j \in 1..(i - 1) : seq[j] # x
    ELSE 0

\* Array.prototype.filter with the predicate given as a set of kept indices
RECURSIVE KeepFrom(_, _, _)
KeepFrom(seq, keep, i) ==
    IF i > Len(seq) THEN <<>>
    ELSE (IF i \in keep THEN <<seq[i]>> ELSE <<>>) \o KeepFrom(seq, keep, i + 1)

Keep(seq, keep) == KeepFrom(seq, keep, 1)

(***************************************************************************)
(* normalizeClasses                                                        *)
(***************************************************************************)
\* the classArray of the input: split string, the array itself, or the keys
\* of the map whose value is truthy (keys are non-numeric names, so
\* Object.entries lists them in insertion order)
classArrayOf(classes) ==
    CASE classes.t = "string" -> [i \in 1..Len(SplitWs(classes.v)) |-> Str(SplitWs(classes.v)[i])]
      [] classes.t = "array" -> classes.v
      [] classes.t = "map" ->
            LET kept == Keep(classes.v, {i \in 1..Len(classes.v) : Truthy(classes.v[i].val)})
            IN [i \in 1..Len(kept) |-> Str(kept[i].key)]
      [] OTHER -> <<>>

\* .filter(c => c && typeof c === 'string').map(c => c.trim())
\* .filter(c => c.length > 0).filter(indexOf === index).map(escapeAttr).join(' ')
normalizeChain(classArray) ==
    LET strs == Keep(classArray, {i \in 1..Len(classArray) :
                    classArray[i].t = "string" /\ Truthy(classArray[i])})
        trimmed == [i \in 1..Len(strs) |-> Trim(strs[i].v)]
        nonEmpty == Keep(trimmed, {i \in 1..Len(trimmed) : Len(trimmed[i]) > 0})
        unique == Keep(nonEmpty, {i \in 1..Len(nonEmpty) : IndexOf(nonEmpty, nonEmpty[i]) = i})
        escaped == [i \in 1..Len(unique) |-> escapeAttr(Str(unique[i]))]
    IN Join(escaped, <<" ">>)

normalizeClasses(classes) ==
    IF ~Truthy(classes) THEN <<>>
    ELSE IF classes.t \in {"string", "array", "map"} THEN normalizeChain(classArrayOf(classes))
    ELSE <<>>

\* mergeClasses(...classInputs): each input normalized, the non-empty
\* results joined by a space, and the joined string normalized again
mergeClasses(classInputs) ==
    LET each == [i \in 1..Len(classInputs) |-> normalizeClasses(classInputs[i])]
        allClasses == Join(Keep(each, {i \in 1..Len(each) : Len(each[i]) > 0}), <<" ">>)
    IN normalizeClasses(Str(allClasses))


(***************************************************************************)
(* Conversions to string.                                                  *)
(***************************************************************************)
UpperChars == <<"A","B","C","D","E","F","G","H","I","J","K","L","M",
                "N","O","P","Q","R","S","T","U","V","W","X","Y","Z">>
LowerChars == <<"a","b","c","d","e","f","g","h","i","j","k","l","m",
                "n","o","p","q","r","s","t","u","v","w","x","y","z">>
Digits == {"0","1","2","3","4","5","6","7","8","9"}
Letters == {UpperChars[i] : i \in 1..26} \cup {LowerChars[i] : i \in 1..26}

ToLowerChar(c) ==
    IF \E i \in 1..26 : UpperChars[i] = c
    THEN LowerChars[CHOOSE i \in 1..26 : UpperChars[i] = c]
    ELSE c

\* String.prototype.toLowerCase()
ToLowerCase(s) == [i \in 1..Len(s) |-> ToLowerChar(s[i])]

\* String(value), also the conversion applied by '' + value; an array
\* converts to its elements joined by ',' (null and undefined as '')
RECURSIVE JSToString(_)
JSToString(val) ==
    CASE val.t = "undefined" -> <<"u","n","d","e","f","i","n","e","d">>
      [] val.t = "null" -> <<"n","u","l","l">>
      [] val.t \in {"string", "number", "boolean"} -> val.v
      [] val.t = "array" ->
            Join([i \in 1..Len(val.v) |->
                     IF val.v[i].t \in {"undefined", "null"} THEN <<>>
                     ELSE JSToString(val.v[i])], <<",">>)
      [] OTHER -> <<"[","o","b","j","e","c","t"," ","O","b","j","e","c","t","]">>

(***************************************************************************)
(* processSlot                                                             *)
(***************************************************************************)
\* .join(',') in place of .join('')
JoinProcessedComma(mapped) == Join(mapped, <<",">>)

\* .join('') of the mapped items of a slot array
JoinProcessed(mapped) == Join(mapped, <<>>)

processSlot(slot, escape, trim) ==
    CASE slot.t \in {"null", "undefined"} -> <<>>
      [] slot.t = "array" ->
            LET items == Keep(slot.v, {i \in 1..Len(slot.v) :
                              slot.v[i].t \notin {"null", "undefined"}})
                mapped == [i \in 1..Len(items) |->
                              IF items[i].t = "string"
                              THEN (IF escape THEN escapeHtml(items[i]) ELSE items[i].v)
                              ELSE JSToString(items[i])]
                processed == JoinProcessed(mapped)
            IN IF trim THEN Trim(processed) ELSE processed
      [] slot.t = "string" ->
            LET processed == IF escape THEN escapeHtml(slot) ELSE slot.v
            IN IF trim THEN Trim(processed) ELSE processed
      [] slot.t \in {"number", "boolean"} -> JSToString(slot)
      [] OTHER -> <<>>

\* the trusted policy with escape: true
processSlotTrustedEscaping(slot) == processSlot(slot, TRUE, FALSE)


processSlotTrusted(slot) == processSlot(slot, FALSE, FALSE)

processSlotUser(slot) == processSlot(slot, TRUE, FALSE)

(***************************************************************************)
(* Outcomes of a call: a returned string or a thrown error.  The error     *)
(* keeps the props that createComponentError renders as JSON after the     *)
(* message.                                                                *)
(***************************************************************************)
NoErr == [kind |-> "none", msg |-> <<>>, props |-> <<>>]
Returns(html) == [ok |-> TRUE, html |-> html, err |-> NoErr]
Throws(e) == [ok |-> FALSE, html |-> <<>>, err |-> e]
NoOutcome == [ok |-> FALSE, html |-> <<>>, err |-> [kind |-> "pending", msg |-> <<>>, props |-> <<>>]]

\* a TypeError raised by the runtime (property read of null/undefined, call
\* of a non-function, built-in called without a receiver)
TypeError == [kind |-> "TypeError", msg |-> <<>>, props |-> <<>>]

\* props[key] of an object literal given as a sequence of [key, val] pairs
PropOf(props, key) ==
    IF \E i \in 1..Len(props) : props[i].key = key
    THEN props[CHOOSE i \in 1..Len(props) : props[i].key = key].val
    ELSE Undef

createComponentError(message, context, props) ==
    [kind |-> "Error",
     msg |-> <<"[">> \o context.componentType \o <<"/">> \o context.componentName \o <<"]"," ">> \o message,
     props |-> props]

\* validateProps: NoErr when it returns, the error when it throws
validateProps(props, required, context) ==
    LET missing == Keep(required, {i \in 1..Len(required) :
                        \/ PropOf(props, required[i]).t \in {"undefined", "null"}
                        \/ PropOf(props, required[i]) = Str(<<>>)})
    IN IF Len(missing) > 0
       THEN createComponentError(<<"M","i","s","s","i","n","g"," ","r","e","q","u","i","r","e","d"," ","p","r","o","p","s",":"," ">> \o Join(missing, <<","," ">>),
                                 context, props)
       ELSE NoErr

\* Array.isArray(value) ? 'array' : typeof value
ActualType(val) ==
    CASE val.t = "array" -> <<"a","r","r","a","y">>
      [] val.t = "string" -> <<"s","t","r","i","n","g">>
      [] val.t = "number" -> <<"n","u","m","b","e","r">>
      [] val.t = "boolean" -> <<"b","o","o","l","e","a","n">>
      [] val.t = "undefined" -> <<"u","n","d","e","f","i","n","e","d">>
      [] val.t = "function" -> <<"f","u","n","c","t","i","o","n">>
      [] OTHER -> <<"o","b","j","e","c","t">>

\* validatePropTypes: schema is a sequence of [key, val] pairs, val the
\* expected type name
validatePropTypes(props, schema, context) ==
    LET bad == Keep(schema, {i \in 1..Len(schema) :
                    /\ PropOf(props, schema[i].key).t # "undefined"
                    /\ ActualType(PropOf(props, schema[i].key)) # schema[i].val})
        errors == [i \in 1..Len(bad) |->
                      bad[i].key \o <<":"," ","e","x","p","e","c","t","e","d"," ">> \o bad[i].val \o <<","," ","g","o","t"," ">>
                          \o ActualType(PropOf(props, bad[i].key))]
    IN IF Len(errors) > 0
       THEN createComponentError(<<"I","n","v","a","l","i","d"," ","p","r","o","p"," ","t","y","p","e","s",":","\n"," "," ">> \o Join(errors, <<"\n"," "," ">>),
                                 context, props)
       ELSE NoErr

(***************************************************************************)
(* utils/validateProps.js: the second validateProps and validatePropTypes.  *)
(* The file calls createComponentError without defining or importing it,    *)
(* so the call raises a ReferenceError before any message is built.         *)
(***************************************************************************)
ReferenceError ==
    [kind |-> "ReferenceError",
     msg |-> <<"c","r","e","a","t","e","C","o","m","p","o","n","e","n","t","E","r","r","o","r"," ","i","s"," ","n","o","t"," ","d","e","f","i","n","e","d">>,
     props |-> <<>>]

\* validateProps of utils/validateProps.js
validatePropsJs_validateProps(props, required, context) ==
    LET missing == Keep(required, {i \in 1..Len(required) :
                        \/ PropOf(props, required[i]).t \in {"undefined", "null"}
                        \/ PropOf(props, required[i]) = Str(<<>>)})
    IN IF Len(missing) > 0 THEN ReferenceError ELSE NoErr

\* validatePropTypes of utils/validateProps.js
validatePropsJs_validatePropTypes(props, schema, context) ==
    LET typeErrors == Keep(schema, {i \in 1..Len(schema) :
                           /\ PropOf(props, schema[i].key).t # "undefined"
                           /\ ActualType(PropOf(props, schema[i].key)) # schema[i].val})
    IN IF Len(typeErrors) > 0 THEN ReferenceError ELSE NoErr


(***************************************************************************)
(* Render functions.  props is the object handed to the function, as a     *)
(* sequence of [key, val] pairs in property order; a destructured          *)
(* parameter takes its default when the property is undefined.             *)
(***************************************************************************)
KV(key, val) == [key |-> key, val |-> val]

Dflt(val, default) == IF val.t = "undefined" THEN default ELSE val

\* props with props[key] = val: an own property keeps its position, a new
\* one is added last
SetProp(props, key, val) ==
    IF \E i \in 1..Len(props) : props[i].key = key
    THEN [i \in 1..Len(props) |-> IF props[i].key = key THEN KV(key, val) ELSE props[i]]
    ELSE Append(props, KV(key, val))

\* /^[a-zA-Z][a-zA-Z0-9-]*$/.test(s)
IsTagName(s) ==
    /\ Len(s) >= 1
    /\ s[1] \in Letters
    /\ \A i \in 2..Len(s) : s[i] \in Letters \cup Digits \cup {"-"}

\* attr ? ` name="${escapeAttr(attr)}"` : ''
OptAttr(name, val) ==
    IF Truthy(val) THEN <<" ">> \o name \o <<"=","\"">> \o escapeAttr(val) \o <<"\"">> ELSE <<>>

link(props) ==
    LET url == PropOf(props, <<"u","r","l">>)
        slot == PropOf(props, <<"s","l","o","t">>)
        attrs == Dflt(PropOf(props, <<"a","t","t","r","s">>), Str(<<>>))
        className == Dflt(PropOf(props, <<"c","l","a","s","s","N","a","m","e">>), Str(<<>>))
        external == Dflt(PropOf(props, <<"e","x","t","e","r","n","a","l">>), Bool(FALSE))
        rel == PropOf(props, <<"r","e","l">>)
        ariaLabel == PropOf(props, <<"a","r","i","a","L","a","b","e","l">>)
        download == Dflt(PropOf(props, <<"d","o","w","n","l","o","a","d">>), Bool(FALSE))
        context == [componentName |-> <<"l","i","n","k">>, componentType |-> <<"a","t","o","m">>]
        missing == validateProps(<<KV(<<"u","r","l">>, url), KV(<<"s","l","o","t">>, slot)>>,
                                 <<<<"u","r","l">>, <<"s","l","o","t">>>>, context)
        badType == validatePropTypes(
                       <<KV(<<"u","r","l">>, url), KV(<<"a","t","t","r","s">>, attrs), KV(<<"c","l","a","s","s","N","a","m","e">>, className)>>,
                       <<KV(<<"u","r","l">>, <<"s","t","r","i","n","g">>), KV(<<"a","t","t","r","s">>, <<"s","t","r","i","n","g">>),
                         KV(<<"c","l","a","s","s","N","a","m","e">>, <<"s","t","r","i","n","g">>)>>, context)
        escapedAttrs == IF Truthy(attrs) THEN <<" ">> \o escapeAttr(attrs) ELSE <<>>
        targetAttr == IF Truthy(external) THEN <<" ","t","a","r","g","e","t","=","\"","_","b","l","a","n","k","\"">> ELSE <<>>
        relAttr == IF Truthy(rel) THEN OptAttr(<<"r","e","l">>, rel)
                   ELSE IF Truthy(external) THEN <<" ","r","e","l","=","\"","n","o","o","p","e","n","e","r"," ","n","o","r","e","f","e","r","r","e","r","\"">>
                   ELSE <<>>
        downloadAttr == IF Truthy(download) THEN <<" ","d","o","w","n","l","o","a","d">> ELSE <<>>
        ariaLabelAttr == OptAttr(<<"a","r","i","a","-","l","a","b","e","l">>, ariaLabel)
        classes == normalizeClasses(Arr(<<Str(<<"l","i","n","k">>), className>>))
        slotContent == processSlotTrusted(slot)
    IN IF missing # NoErr THEN Throws(missing)
       ELSE IF badType # NoErr THEN Throws(badType)
       ELSE IF Len(Trim(url.v)) = 0
       THEN Throws([kind |-> "ComponentError", msg |-> <<"U","R","L"," ","c","a","n","n","o","t"," ","b","e"," ","e","m","p","t","y">>,
                    props |-> <<KV(<<"u","r","l">>, url), KV(<<"s","l","o","t">>, slot)>>])
       ELSE Returns(<<"<","a"," ","h","r","e","f","=","\"">> \o escapeAttr(url) \o <<"\""," ","c","l","a","s","s","=","\"">> \o classes \o <<"\"">>
                    \o targetAttr \o relAttr \o downloadAttr \o escapedAttrs
                    \o ariaLabelAttr \o <<">">> \o slotContent \o <<"<","/","a",">">>)

text(props) ==
    LET is == PropOf(props, <<"i","s">>)
        slot == PropOf(props, <<"s","l","o","t">>)
        attrs == Dflt(PropOf(props, <<"a","t","t","r","s">>), Str(<<>>))
        className == Dflt(PropOf(props, <<"c","l","a","s","s","N","a","m","e">>), Str(<<>>))
        id == PropOf(props, <<"i","d">>)
        role == PropOf(props, <<"r","o","l","e">>)
        ariaLabel == PropOf(props, <<"a","r","i","a","L","a","b","e","l">>)
        context == [componentName |-> <<"t","e","x","t">>, componentType |-> <<"a","t","o","m">>]
        missing == validateProps(<<KV(<<"i","s">>, is), KV(<<"s","l","o","t">>, slot)>>,
                                 <<<<"i","s">>, <<"s","l","o","t">>>>, context)
        badType == validatePropTypes(
                       <<KV(<<"i","s">>, is), KV(<<"a","t","t","r","s">>, attrs), KV(<<"c","l","a","s","s","N","a","m","e">>, className)>>,
                       <<KV(<<"i","s">>, <<"s","t","r","i","n","g">>), KV(<<"a","t","t","r","s">>, <<"s","t","r","i","n","g">>),
                         KV(<<"c","l","a","s","s","N","a","m","e">>, <<"s","t","r","i","n","g">>)>>, context)
        isSlot == <<KV(<<"i","s">>, is), KV(<<"s","l","o","t">>, slot)>>
        escapedAttrs == IF Truthy(attrs) THEN <<" ">> \o escapeAttr(attrs) ELSE <<>>
        classes == normalizeClasses(Arr(<<Str(<<"t","e","x","t">>), className>>))
        slotContent == processSlotTrusted(slot)
        escapedTag == escapeAttr(is)
    IN IF missing # NoErr THEN Throws(missing)
       ELSE IF badType # NoErr THEN Throws(badType)
       ELSE IF Len(Trim(is.v)) = 0
       THEN Throws(createComponentError(
                       <<"T","h","e"," ","\"","i","s","\""," ","p","r","o","p"," ","c","a","n","n","o","t"," ","b","e"," ","e","m","p","t","y","."," ","S","p","e","c","i","f","y"," ","a","n"," ","H","T","M","L"," ","t","a","g"," ","l","i","k","e"," ","\"","p","\"",","," ","\"","h","1","\"",","," ","\"","s","p","a","n","\"",","," ","e","t","c",".">>,
                       context, isSlot))
       ELSE IF ~IsTagName(is.v)
       THEN Throws(createComponentError(
                       <<"I","n","v","a","l","i","d"," ","H","T","M","L"," ","t","a","g"," ","n","a","m","e",":"," ","\"">> \o is.v
                         \o <<"\"","."," ","T","a","g"," ","n","a","m","e","s"," ","m","u","s","t"," ","s","t","a","r","t"," ","w","i","t","h"," ","a"," ","l","e","t","t","e","r"," ","a","n","d"," ","c","o","n","t","a","i","n"," ","o","n","l","y"," ","l","e","t","t","e","r","s",","," ","n","u","m","b","e","r","s",","," ","a","n","d"," ","h","y","p","h","e","n","s",".">>,
                       context, isSlot))
       ELSE Returns(<<"<">> \o escapedTag \o <<" ","c","l","a","s","s","=","\"">> \o classes \o <<"\"">>
                    \o OptAttr(<<"i","d">>, id) \o OptAttr(<<"r","o","l","e">>, role) \o escapedAttrs
                    \o OptAttr(<<"a","r","i","a","-","l","a","b","e","l">>, ariaLabel) \o <<">">> \o slotContent
                    \o <<"<","/">> \o escapedTag \o <<">">>)

button(props) ==
    LET type == Dflt(PropOf(props, <<"t","y","p","e">>), Str(<<"b","u","t","t","o","n">>))
        attrs == Dflt(PropOf(props, <<"a","t","t","r","s">>), Str(<<>>))
        className == Dflt(PropOf(props, <<"c","l","a","s","s","N","a","m","e">>), Str(<<>>))
        slot == PropOf(props, <<"s","l","o","t">>)
        context == [componentName |-> <<"b","u","t","t","o","n">>, componentType |-> <<"a","t","o","m">>]
        missing == validateProps(<<KV(<<"s","l","o","t">>, slot)>>, <<<<"s","l","o","t">>>>, context)
        badType == validatePropTypes(
                       <<KV(<<"t","y","p","e">>, type), KV(<<"a","t","t","r","s">>, attrs),
                         KV(<<"c","l","a","s","s","N","a","m","e">>, className), KV(<<"s","l","o","t">>, slot)>>,
                       <<KV(<<"t","y","p","e">>, <<"s","t","r","i","n","g">>), KV(<<"a","t","t","r","s">>, <<"s","t","r","i","n","g">>),
                         KV(<<"c","l","a","s","s","N","a","m","e">>, <<"s","t","r","i","n","g">>)>>, context)
        validTypes == {<<"b","u","t","t","o","n">>, <<"s","u","b","m","i","t">>, <<"r","e","s","e","t">>}
        attrsOut == IF Truthy(attrs) THEN <<" ">> \o attrs.v ELSE <<>>
        classes == normalizeClasses(Arr(<<Str(<<"b","t","n">>), className>>))
        slotContent == processSlotTrusted(slot)
    IN IF missing # NoErr THEN Throws(missing)
       ELSE IF badType # NoErr THEN Throws(badType)
       ELSE IF type.v \notin validTypes
       THEN Throws([kind |-> "Error",
                    msg |-> <<"I","n","v","a","l","i","d"," ","b","u","t","t","o","n"," ","t","y","p","e",":"," ","\"">> \o type.v
                              \o <<"\"","."," ","M","u","s","t"," ","b","e"," ","o","n","e"," ","o","f",":"," ","b","u","t","t","o","n",","," ","s","u","b","m","i","t",","," ","r","e","s","e","t">>,
                    props |-> <<>>])
       ELSE Returns(<<"<","b","u","t","t","o","n"," ","t","y","p","e","=","\"">> \o type.v \o <<"\""," ","c","l","a","s","s","=","\"">> \o classes \o <<"\"">>
                    \o attrsOut \o <<">">> \o slotContent \o <<"<","/","b","u","t","t","o","n",">">>)

header(props) ==
    LET slot == PropOf(props, <<"s","l","o","t">>)
        attrs == Dflt(PropOf(props, <<"a","t","t","r","s">>), Str(<<>>))
        className == Dflt(PropOf(props, <<"c","l","a","s","s","N","a","m","e">>), Str(<<>>))
        id == PropOf(props, <<"i","d">>)
        role == PropOf(props, <<"r","o","l","e">>)
        ariaLabel == PropOf(props, <<"a","r","i","a","L","a","b","e","l">>)
        context == [componentName |-> <<"h","e","a","d","e","r">>, componentType |-> <<"o","r","g","a","n","i","s","m">>]
        missing == validateProps(<<KV(<<"s","l","o","t">>, slot)>>, <<<<"s","l","o","t">>>>, context)
        badType == validatePropTypes(
                       <<KV(<<"a","t","t","r","s">>, attrs), KV(<<"c","l","a","s","s","N","a","m","e">>, className)>>,
                       <<KV(<<"a","t","t","r","s">>, <<"s","t","r","i","n","g">>), KV(<<"c","l","a","s","s","N","a","m","e">>, <<"s","t","r","i","n","g">>)>>, context)
        escapedAttrs == IF Truthy(attrs) THEN <<" ">> \o escapeAttr(attrs) ELSE <<>>
        classes == normalizeClasses(Arr(<<Str(<<"h","e","a","d","e","r">>), className>>))
        slotContent == processSlotTrusted(slot)
    IN IF missing # NoErr THEN Throws(missing)
       ELSE IF badType # NoErr THEN Throws(badType)
       ELSE IF slot.t \notin {"string", "array"} THEN Throws(TypeError)
       ELSE Returns(<<"<","h","e","a","d","e","r"," ","c","l","a","s","s","=","\"">> \o classes \o <<"\"">> \o OptAttr(<<"i","d">>, id)
                    \o OptAttr(<<"r","o","l","e">>, role) \o OptAttr(<<"a","r","i","a","-","l","a","b","e","l">>, ariaLabel)
                    \o escapedAttrs \o <<">">> \o slotContent \o <<"<","/","h","e","a","d","e","r",">">>)

box(props) ==
    LET is == Dflt(PropOf(props, <<"i","s">>), Str(<<"d","i","v">>))
        slot == Dflt(PropOf(props, <<"s","l","o","t">>), Str(<<>>))
        attrs == Dflt(PropOf(props, <<"a","t","t","r","s">>), Str(<<>>))
        className == Dflt(PropOf(props, <<"c","l","a","s","s","N","a","m","e">>), Str(<<>>))
        id == PropOf(props, <<"i","d">>)
        role == PropOf(props, <<"r","o","l","e">>)
        ariaLabel == PropOf(props, <<"a","r","i","a","L","a","b","e","l">>)
        context == [componentName |-> <<"b","o","x">>, componentType |-> <<"a","t","o","m">>]
        badType == validatePropTypes(
                       <<KV(<<"i","s">>, is), KV(<<"a","t","t","r","s">>, attrs), KV(<<"c","l","a","s","s","N","a","m","e">>, className)>>,
                       <<KV(<<"i","s">>, <<"s","t","r","i","n","g">>), KV(<<"a","t","t","r","s">>, <<"s","t","r","i","n","g">>),
                         KV(<<"c","l","a","s","s","N","a","m","e">>, <<"s","t","r","i","n","g">>)>>, context)
        escapedAttrs == IF Truthy(attrs) THEN <<" ">> \o escapeAttr(attrs) ELSE <<>>
        classes == normalizeClasses(Arr(<<Str(<<"b","o","x">>), className>>))
        slotContent == processSlotTrusted(slot)
        escapedTag == escapeAttr(is)
    IN IF badType # NoErr THEN Throws(badType)
       ELSE IF Len(Trim(is.v)) = 0
       THEN Throws(createComponentError(
                       <<"T","h","e"," ","\"","i","s","\""," ","p","r","o","p"," ","c","a","n","n","o","t"," ","b","e"," ","e","m","p","t","y","."," ","S","p","e","c","i","f","y"," ","a","n"," ","H","T","M","L"," ","t","a","g"," ","l","i","k","e"," ","\"","d","i","v","\"",","," ","\"","s","e","c","t","i","o","n","\"",","," ","\"","a","r","t","i","c","l","e","\"",","," ","e","t","c",".">>,
                       context, <<KV(<<"i","s">>, is), KV(<<"s","l","o","t">>, slot)>>))
       ELSE IF ~IsTagName(is.v)
       THEN Throws(createComponentError(
                       <<"I","n","v","a","l","i","d"," ","H","T","M","L"," ","t","a","g"," ","n","a","m","e",":"," ","\"">> \o is.v
                         \o <<"\"","."," ","T","a","g"," ","n","a","m","e","s"," ","m","u","s","t"," ","s","t","a","r","t"," ","w","i","t","h"," ","a"," ","l","e","t","t","e","r"," ","a","n","d"," ","c","o","n","t","a","i","n"," ","o","n","l","y"," ","l","e","t","t","e","r","s",","," ","n","u","m","b","e","r","s",","," ","a","n","d"," ","h","y","p","h","e","n","s",".">>,
                       context, <<KV(<<"i","s">>, is), KV(<<"s","l","o","t">>, slot)>>))
       ELSE Returns(<<"<">> \o escapedTag \o <<" ","c","l","a","s","s","=","\"">> \o classes \o <<"\"">>
                    \o OptAttr(<<"i","d">>, id) \o OptAttr(<<"r","o","l","e">>, role)
                    \o OptAttr(<<"a","r","i","a","-","l","a","b","e","l">>, ariaLabel) \o escapedAttrs \o <<">">> \o slotContent
                    \o <<"<","/">> \o escapedTag \o <<">">>)

\* hero builds its attributes and hands classes, attributes and the processed
\* slot to box
hero(props) ==
    LET slot == PropOf(props, <<"s","l","o","t">>)
        attrs == Dflt(PropOf(props, <<"a","t","t","r","s">>), Str(<<>>))
        className == Dflt(PropOf(props, <<"c","l","a","s","s","N","a","m","e">>), Str(<<>>))
        id == PropOf(props, <<"i","d">>)
        ariaLabel == PropOf(props, <<"a","r","i","a","L","a","b","e","l">>)
        backgroundImage == PropOf(props, <<"b","a","c","k","g","r","o","u","n","d","I","m","a","g","e">>)
        context == [componentName |-> <<"h","e","r","o">>, componentType |-> <<"o","r","g","a","n","i","s","m">>]
        missing == validateProps(<<KV(<<"s","l","o","t">>, slot)>>, <<<<"s","l","o","t">>>>, context)
        badType == validatePropTypes(
                       <<KV(<<"a","t","t","r","s">>, attrs), KV(<<"c","l","a","s","s","N","a","m","e">>, className)>>,
                       <<KV(<<"a","t","t","r","s">>, <<"s","t","r","i","n","g">>), KV(<<"c","l","a","s","s","N","a","m","e">>, <<"s","t","r","i","n","g">>)>>, context)
        escapedAttrs == IF Truthy(attrs) THEN <<" ">> \o escapeAttr(attrs) ELSE <<>>
        backgroundStyleAttr ==
            IF Truthy(backgroundImage)
            THEN <<" ","s","t","y","l","e","=","\"","b","a","c","k","g","r","o","u","n","d","-","i","m","a","g","e",":"," ","u","r","l","(","'">> \o escapeAttr(backgroundImage) \o <<"'",")","\"">>
            ELSE <<>>
        classes == normalizeClasses(Arr(<<Str(<<"h","e","r","o">>), className>>))
        slotContent == processSlotTrusted(slot)
        boxAttrs == Trim(<<"r","o","l","e","=","\"","h","e","r","o","\"">> \o OptAttr(<<"i","d">>, id) \o OptAttr(<<"a","r","i","a","-","l","a","b","e","l">>, ariaLabel)
                         \o backgroundStyleAttr \o escapedAttrs)
    IN IF missing # NoErr THEN Throws(missing)
       ELSE IF badType # NoErr THEN Throws(badType)
       ELSE IF slot.t \notin {"string", "array"} THEN Throws(TypeError)
       ELSE box(<<KV(<<"i","s">>, Str(<<"d","i","v">>)), KV(<<"c","l","a","s","s","N","a","m","e">>, Str(classes)),
                  KV(<<"a","t","t","r","s">>, Str(boxAttrs)), KV(<<"s","l","o","t">>, Str(slotContent))>>)


(***************************************************************************)
(* Tier tables and property lookup.                                        *)
(***************************************************************************)
atoms == <<<<"a","c","c","o","r","d","i","o","n">>, <<"b","o","x">>, <<"b","u","t","t","o","n">>, <<"d","i","v","i","d","e","r">>, <<"i","m","a","g","e">>, <<"i","n","p","u","t">>,
           <<"l","i","n","k">>, <<"p","i","c","t","u","r","e">>, <<"t","e","x","t">>, <<"t","e","x","t","a","r","e","a">>, <<"v","i","d","e","o">>>>

molecules == <<<<"c","a","r","d">>>>

organisms == <<<<"c","t","a">>, <<"h","e","a","d","e","r">>, <<"h","e","r","o">>, <<"f","o","o","t","e","r">>>>

\* members every plain object inherits from Object.prototype
ObjectPrototype == {<<"c","o","n","s","t","r","u","c","t","o","r">>, <<"t","o","S","t","r","i","n","g">>, <<"v","a","l","u","e","O","f">>, <<"h","a","s","O","w","n","P","r","o","p","e","r","t","y">>}

\* table[name] on a plain object: an own render function, an inherited
\* member, the prototype itself for '__proto__', or undefined
Lookup(table, name) ==
    IF \E i \in 1..Len(table) : table[i] = name THEN [t |-> "function", v |-> name]
    ELSE IF name \in ObjectPrototype THEN [t |-> "builtin", v |-> name]
    ELSE IF name = <<"_","_","p","r","o","t","o","_","_">> THEN [t |-> "prototype", v |-> name]
    ELSE Undef

\* matchedComponent(component.props); the inputs name only the render
\* functions modelled above
Invoke(matched, props) ==
    CASE matched = [t |-> "function", v |-> <<"l","i","n","k">>] -> link(props)
      [] matched = [t |-> "function", v |-> <<"t","e","x","t">>] -> text(props)
      [] matched = [t |-> "function", v |-> <<"b","u","t","t","o","n">>] -> button(props)
      [] matched = [t |-> "function", v |-> <<"h","e","a","d","e","r">>] -> header(props)
      [] matched = [t |-> "function", v |-> <<"b","o","x">>] -> box(props)
      [] matched = [t |-> "function", v |-> <<"h","e","r","o">>] -> hero(props)
      \* Object.prototype.toString called without a receiver
      [] matched = [t |-> "builtin", v |-> <<"t","o","S","t","r","i","n","g">>] -> Returns(<<"[","o","b","j","e","c","t"," ","U","n","d","e","f","i","n","e","d","]">>)
      \* Object(props) returns props, which join() renders as a string
      [] matched = [t |-> "builtin", v |-> <<"c","o","n","s","t","r","u","c","t","o","r">>] -> Returns(<<"[","o","b","j","e","c","t"," ","O","b","j","e","c","t","]">>)
      [] OTHER -> Throws(TypeError)

(***************************************************************************)
(* compose and renderComponent.  They run on the caller's descriptor       *)
(* objects: st.heap maps an object identity to [type, name, props], and    *)
(* st.log collects the render-function invocations in call order.          *)
(***************************************************************************)
Sep == <<"\n"," "," "," "," ">>

SlotKey == <<"s","l","o","t">>

NotFound(component) ==
    [kind |-> "Error",
     msg |-> <<"C","o","m","p","o","n","e","n","t"," ","\"">> \o component.name \o <<"\""," ","(">> \o component.type
               \o <<")"," ","n","o","t"," ","f","o","u","n","d"," ","i","n"," ","l","i","b","r","a","r","y",".">>,
     props |-> <<>>]

\* the three-way branch of compose on the lowercased type
MatchedComponent(component) ==
    IF component.type = <<"o","r","g","a","n","i","s","m">> THEN Lookup(organisms, component.name)
    ELSE IF component.type = <<"m","o","l","e","c","u","l","e">> THEN Lookup(molecules, component.name)
    ELSE Lookup(atoms, component.name)

\* the single string escaped on the way
UnwrapEscaped(slot) == escapeHtml(slot.v[1])

\* the slot of a one-element array holding a string
UnwrapSingle(slot) == slot.v[1].v

\* join('\n') in place of join('\n    ')
JoinOutputsNewline(outs) == Join(outs, <<"\n">>)

\* .join('\n    ') of the outputs of a components list
JoinOutputs(outs) == Join(outs, Sep)

\* join('') in place of join('\n    ')
JoinChildrenNoSep(parts) == Join(parts, <<>>)

\* .join('\n    ') of the mapped children of a slot array
JoinChildren(parts) == Join(parts, Sep)

\* component.props.slot += slotContent
WriteBackAppend(props, slotContent) ==
    SetProp(props, SlotKey, Str(JSToString(PropOf(props, SlotKey)) \o slotContent.v))

\* component.props.slot = slotContent
WriteBack(props, slotContent) == SetProp(props, SlotKey, slotContent)

\* a catch around the callback that substitutes '' for what it throws
CaughtAsEmpty(r) == IF r.out.ok THEN r ELSE [r EXCEPT !.out = Returns(<<>>)]

\* no try/catch surrounds a callback: what it throws leaves compose as it is
Uncaught(r) == r

RECURSIVE composeFrom(_, _, _, _, _)
RECURSIVE composeNext(_, _, _, _, _)
RECURSIVE composeOne(_, _, _)
RECURSIVE renderComponent(_, _, _, _)
RECURSIVE renderWith(_, _, _, _)
RECURSIVE slotChildren(_, _, _, _, _)
RECURSIVE slotNext(_, _, _, _, _)

\* components.map(...).join('\n    '), abandoned at the first throw
composeFrom(st, components, i, outs, depth) ==
    IF i > Len(components) THEN [st |-> st, out |-> Returns(JoinOutputs(outs))]
    ELSE composeNext(Uncaught(composeOne(st, components[i], depth)), components, i, outs, depth)

\* the map of compose after its callback gave r for components[i]
composeNext(r, components, i, outs, depth) ==
    IF ~r.out.ok THEN r
    ELSE composeFrom(r.st, components, i + 1, Append(outs, r.out.html), depth)

\* the map callback of compose
composeOne(st, component, depth) ==
    IF component.t # "object" THEN [st |-> st, out |-> Throws(TypeError)]
    ELSE renderComponent([st EXCEPT !.heap[component.v[1]].type = ToLowerCase(@)],
                         component.v[1],
                         MatchedComponent([st.heap[component.v[1]] EXCEPT !.type = ToLowerCase(@)]),
                         depth)

\* slot.map(child => typeof child === 'string' ? child : compose([child]))
slotChildren(st, children, i, parts, depth) ==
    IF i > Len(children) THEN [st |-> st, out |-> Returns(JoinChildren(parts))]
    ELSE IF children[i].t = "string"
    THEN slotChildren(st, children, i + 1, Append(parts, children[i].v), depth)
    ELSE slotNext(composeFrom(st, <<children[i]>>, 1, <<>>, depth), children, i, parts, depth)

\* the string compose([child]) returned escaped before it joins the slot
slotNextEscaped(r, children, i, parts, depth) ==
    IF ~r.out.ok THEN r
    ELSE slotChildren(r.st, children, i + 1, Append(parts, escapeHtml(Str(r.out.html))), depth)

\* the map going on two elements further, past the next child
slotNextSkipping(r, children, i, parts, depth) ==
    IF ~r.out.ok THEN r
    ELSE slotChildren(r.st, children, i + 2, Append(parts, r.out.html), depth)

\* the map of the slot array after compose([child]) gave r for children[i]
slotNext(r, children, i, parts, depth) ==
    IF ~r.out.ok THEN r
    ELSE slotChildren(r.st, children, i + 1, Append(parts, r.out.html), depth)

\* the slot content of a matched component, before it is written back
slotContentOf(st, slot, depth) ==
    IF slot.t = "array"
    THEN IF Len(slot.v) = 1 /\ slot.v[1].t = "string"
         THEN [st |-> st, out |-> Returns(UnwrapSingle(slot))]
         ELSE slotChildren(st, slot.v, 1, <<>>, depth + 1)
    ELSE [st |-> st, out |-> Returns(JSToString(slot))]

\* what a call of the render function on props leaves behind: the props
\* stored on the descriptor, and the call in the log
rendered(st, id, depth, props, slotContent, out) ==
    [st |-> [heap |-> [st.heap EXCEPT ![id].props = props],
             log |-> Append(st.log, [node |-> id, depth |-> depth,
                                     slot |-> slotContent, out |-> out])],
     out |-> out]

\* component.props.slot = slotContent; return matchedComponent(component.props)
writeAndInvoke(st, id, depth, matchedComponent, props, slotContent) ==
    rendered(st, id, depth, props, slotContent, Invoke(matchedComponent, props))

\* renderComponent once the slot content is known
renderWith(content, id, matchedComponent, depth) ==
    IF ~content.out.ok THEN content
    ELSE writeAndInvoke(content.st, id, depth, matchedComponent,
                        WriteBack(content.st.heap[id].props, Str(content.out.html)),
                        Str(content.out.html))

renderComponent(st, id, matchedComponent, depth) ==
    IF Truthy(matchedComponent)
    THEN renderWith(slotContentOf(st, PropOf(st.heap[id].props, SlotKey), depth),
                    id, matchedComponent, depth)
    ELSE [st |-> st, out |-> Throws(NotFound(st.heap[id]))]

\* compose(components = [])
compose(st, components) ==
    composeFrom(st, Dflt(components, Arr(<<>>)).v, 1, <<>>, 0)

(***************************************************************************)
(* Specification Spec: a descriptor tree is built once (the route table)   *)
(* and compose is called on it repeatedly, as the request handler does.    *)
(***************************************************************************)
Desc(type, name, props) == [type |-> type, name |-> name, props |-> props]

WithSlot(props, slot) == IF slot = Pending THEN props ELSE Append(props, KV(SlotKey, slot))

\* slot values of a leaf descriptor (Pending: the props have no slot)
LeafSlots ==
    {Pending, Null, Str(<<>>), Str(<<"H","i">>), Arr(<<>>), Arr(<<Str(<<"H","i">>)>>),
     Arr(<<Str(<<"a">>), Str(<<"<","b",">">>)>>)}

\* type, name and the props other than slot
Kinds ==
    {Desc(<<"a","t","o","m">>, <<"l","i","n","k">>, <<KV(<<"u","r","l">>, Str(<<"#">>))>>),
     Desc(<<"a","t","o","m">>, <<"l","i","n","k">>, <<>>),
     Desc(<<"A","T","O","M">>, <<"t","e","x","t">>, <<KV(<<"i","s">>, Str(<<"p">>))>>),
     Desc(<<"A","t","o","m">>, <<"b","u","t","t","o","n">>, <<KV(<<"t","y","p","e">>, Str(<<"s","u","b","m","i","t">>))>>),
     Desc(<<"a","t","o","m">>, <<"n","o","p","e">>, <<>>),
     Desc(<<"a","t","o","m">>, <<"t","o","S","t","r","i","n","g">>, <<>>),
     Desc(<<"m","o","l","e","c","u","l","e">>, <<"n","o","p","e">>, <<>>),
     Desc(<<"o","r","g","a","n","i","s","m">>, <<"l","i","n","k">>, <<KV(<<"u","r","l">>, Str(<<"#">>))>>),
     Desc(<<"O","r","g","a","n","i","s","m">>, <<"h","e","a","d","e","r">>, <<>>)}

Leaves == {[k EXCEPT !.props = WithSlot(@, s)] : k \in Kinds, s \in LeafSlots}

\* the second child: a small choice of leaves
Leaves3 ==
    {Desc(<<"a","t","o","m">>, <<"l","i","n","k">>, <<KV(<<"u","r","l">>, Str(<<"#">>)), KV(SlotKey, Str(<<"B">>))>>),
     Desc(<<"a","t","o","m">>, <<"l","i","n","k">>, <<KV(SlotKey, Str(<<"B">>))>>),
     Desc(<<"a","t","o","m">>, <<"n","o","p","e">>, <<>>),
     Desc(<<"a","t","o","m">>, <<"t","e","x","t">>, <<KV(<<"i","s">>, Str(<<"p">>)), KV(SlotKey, Arr(<<Str(<<"H","i">>)>>))>>)}

\* slots of the parent descriptor: arrays over its children (objects 2, 3)
ParentSlots ==
    {Arr(<<Ref(2), Ref(3)>>), Arr(<<Ref(2)>>), Arr(<<Str(<<"x">>), Ref(2)>>),
     Arr(<<Ref(3), Ref(3)>>)}

ParentKinds ==
    {Desc(<<"o","r","g","a","n","i","s","m">>, <<"h","e","a","d","e","r">>, <<>>),
     Desc(<<"a","t","o","m">>, <<"t","e","x","t">>, <<KV(<<"i","s">>, Str(<<"p">>))>>),
     Desc(<<"a","t","o","m">>, <<"n","o","p","e">>, <<>>),
     Desc(<<"a","t","o","m">>, <<"c","o","n","s","t","r","u","c","t","o","r">>, <<>>)}

Parents == {[k EXCEPT !.props = WithSlot(@, s)] : k \in ParentKinds, s \in ParentSlots}

\* the components list of the route
ComponentLists ==
    {Undef, Arr(<<>>), Arr(<<Ref(1)>>), Arr(<<Ref(2), Ref(3)>>), Arr(<<Ref(3), Ref(1)>>)}

Init ==
    /\ \E d1 \in Parents, d2 \in Leaves, d3 \in Leaves3 : heap = <<d1, d2, d3>>
    /\ \E c \in ComponentLists : routes = <<c>>
    /\ calls = [r \in 1..Len(routes) |-> 0]
    /\ first = [r \in 1..Len(routes) |-> NoOutcome]
    /\ last = [r \in 1..Len(routes) |-> NoOutcome]
    /\ pre = heap
    /\ log = <<>>
    /\ req = 0
    /\ EscIdle
    /\ ClsIdle
    /\ UnitIdle

\* what a request for route r leaves behind when compose gave res
Served(r, res) ==
    /\ heap' = res.st.heap
    /\ log' = res.st.log
    /\ last' = [last EXCEPT ![r] = res.out]
    /\ first' = IF calls[r] = 0 THEN [first EXCEPT ![r] = res.out] ELSE first

\* one request for route r: compose(route.components)
Compose(r) ==
    /\ calls[r] < MaxCalls
    /\ Served(r, compose([heap |-> heap, log |-> <<>>], routes[r]))
    /\ pre' = heap
    /\ req' = r
    /\ calls' = [calls EXCEPT ![r] = @ + 1]
    /\ UNCHANGED <<routes, escVars, clsVars, unitVars>>

Next == \E r \in 1..Len(routes) : Compose(r)

Spec == Init /\ [][Next]_vars

(***************************************************************************)
(* Specification SpecTwin: two routes whose single descriptors differ only *)
(* in the slot, [s] for the first and s for the second.                    *)
(***************************************************************************)
TwinStrings == {<<>>, <<"H","e","l","l","o">>, <<"a","<","b">>}

InitTwin ==
    /\ \E k \in Kinds, s \in TwinStrings :
          heap = <<[k EXCEPT !.props = WithSlot(@, Arr(<<Str(s)>>))],
                   [k EXCEPT !.props = WithSlot(@, Str(s))]>>
    /\ routes = <<Arr(<<Ref(1)>>), Arr(<<Ref(2)>>)>>
    /\ calls = [r \in 1..Len(routes) |-> 0]
    /\ first = [r \in 1..Len(routes) |-> NoOutcome]
    /\ last = [r \in 1..Len(routes) |-> NoOutcome]
    /\ pre = heap
    /\ log = <<>>
    /\ req = 0
    /\ EscIdle
    /\ ClsIdle
    /\ UnitIdle

SpecTwin == InitTwin /\ [][Next]_vars

(***************************************************************************)
(* Properties of compose.                                                  *)
(***************************************************************************)
\* the descriptor objects a components list holds
RootsOf(components) ==
    IF components.t = "array"
    THEN {components.v[i].v[1] : i \in {j \in 1..Len(components.v) : components.v[j].t = "object"}}
    ELSE {}

\* the descriptor objects nested in the slot array of object id
Kids(h, id) == RootsOf(PropOf(h[id].props, SlotKey))

RECURSIVE Reach(_, _, _)
Reach(h, S, n) ==
    IF n = 0 THEN S ELSE Reach(h, S \cup UNION {Kids(h, x) : x \in S}, n - 1)

\* every descriptor of the tree handed to the latest call
TreeNodes == Reach(pre, RootsOf(routes[req]), Len(pre))

Contains(s, sub) == \E i \in 1..(Len(s) + 1) : HasPrefixAt(s, i, sub)

TierNames(type) ==
    CASE type = <<"a","t","o","m">> -> {atoms[i] : i \in 1..Len(atoms)}
      [] type = <<"m","o","l","e","c","u","l","e">> -> {molecules[i] : i \in 1..Len(molecules)}
      [] type = <<"o","r","g","a","n","i","s","m">> -> {organisms[i] : i \in 1..Len(organisms)}

\* a descriptor of one of the three tiers whose name the tier does not define
Unresolvable(d) ==
    /\ ToLowerCase(d.type) \in {<<"a","t","o","m">>, <<"m","o","l","e","c","u","l","e">>, <<"o","r","g","a","n","i","s","m">>}
    /\ d.name \notin TierNames(ToLowerCase(d.type))

NoRenderThrew == \A i \in 1..Len(log) : log[i].out.ok

\* C1: compose fails closed on an unknown component: when some descriptor of
\* the tree has a name its tier does not define, compose returns no HTML and
\* raises; unless a render function raised first, the message names the
\* name and type of such a descriptor.
C1_UnknownFailsClosed ==
    req # 0 =>
        LET unknown == {n \in TreeNodes : Unresolvable(pre[n])}
        IN unknown # {} =>
              /\ ~last[req].ok
              /\ NoRenderThrew =>
                    \E u \in unknown :
                        /\ Contains(last[req].err.msg, pre[u].name)
                        /\ Contains(last[req].err.msg, ToLowerCase(pre[u].type))

NewlineFourSpaces == <<"\n", " ", " ", " ", " ">>

\* strs[1], then for each further element the separator and the element
RECURSIVE SepConcat(_)
SepConcat(strs) ==
    IF Len(strs) = 0 THEN <<>>
    ELSE IF Len(strs) = 1 THEN strs[1]
    ELSE SepConcat(SubSeq(strs, 1, Len(strs) - 1)) \o NewlineFourSpaces \o strs[Len(strs)]

\* the render invocations made for the elements of the components list
TopEntries == Keep(log, {i \in 1..Len(log) : log[i].depth = 0})

ComponentsOf(r) == Dflt(routes[r], Arr(<<>>)).v

\* C2: when compose returns, its result is the outputs of the n descriptors
\* of the list, in list order, with newline + four spaces between
\* consecutive outputs and nothing before or after; compose([]) and
\* compose() return ''.
C2_JoinedInOrder ==
    req # 0 =>
        /\ Len(ComponentsOf(req)) = 0 => last[req] = Returns(<<>>)
        /\ last[req].ok =>
              /\ Len(TopEntries) = Len(ComponentsOf(req))
              /\ \A i \in 1..Len(TopEntries) : TopEntries[i].node = ComponentsOf(req)[i].v[1]
              /\ last[req].html = SepConcat([i \in 1..Len(TopEntries) |-> TopEntries[i].out.html])

\* Witness for C2: a two-element list has been composed, and so has compose().
C2_Witness ==
    /\ req # 0
    /\ last[req].ok
    /\ Len(ComponentsOf(req)) = 2
    /\ \A i \in 1..Len(TopEntries) : Len(TopEntries[i].out.html) > 0

\* the render invocations made for the children of log entry i: those one
\* level deeper since the previous entry that is not deeper than entry i
ChildEntries(i) ==
    LET before == {j \in 1..(i - 1) : log[j].depth <= log[i].depth}
        start == IF before = {} THEN 0 ELSE CHOOSE j \in before : \A k \in before : k <= j
    IN Keep(log, {j \in (start + 1)..(i - 1) : log[j].depth = log[i].depth + 1})

\* the elements of a slot array mapped in order: a string to itself, the
\* k-th nested descriptor to the output composed for it
RECURSIVE MappedSlot(_, _)
MappedSlot(items, kidOuts) ==
    IF items = <<>> THEN <<>>
    ELSE IF Head(items).t = "string"
    THEN <<Head(items).v>> \o MappedSlot(Tail(items), kidOuts)
    ELSE <<Head(kidOuts)>> \o MappedSlot(Tail(items), Tail(kidOuts))

IsSingleStringArray(slot) ==
    slot.t = "array" /\ Len(slot.v) = 1 /\ slot.v[1].t = "string"

\* C3: a descriptor whose slot is an array other than a single string is
\* rendered with the slot string made of the array's elements mapped in
\* order (string to itself, nested descriptor to its composed output) and
\* joined with newline + four spaces; a header over two link atoms returns
\* <header class="header">, the two rendered links so joined, </header>.
C3_NestedSlotJoined ==
    req # 0 =>
        \A i \in 1..Len(log) :
            LET d == pre[log[i].node]
                slot == PropOf(d.props, SlotKey)
                kidOuts == [k \in 1..Len(ChildEntries(i)) |-> ChildEntries(i)[k].out.html]
            IN (slot.t = "array" /\ ~IsSingleStringArray(slot)) =>
                  /\ log[i].slot = Str(SepConcat(MappedSlot(slot.v, kidOuts)))
                  /\ (/\ d.name = <<"h","e","a","d","e","r">>
                      /\ d.props = <<KV(SlotKey, slot)>>
                      /\ Len(slot.v) = 2
                      /\ \A k \in 1..2 : /\ slot.v[k].t = "object"
                                         /\ pre[slot.v[k].v[1]].name = <<"l","i","n","k">>) =>
                        log[i].out = Returns(<<"<","h","e","a","d","e","r"," ","c","l","a","s","s","=","\"","h","e","a","d","e","r","\"",">">> \o kidOuts[1]
                                             \o NewlineFourSpaces \o kidOuts[2]
                                             \o <<"<","/","h","e","a","d","e","r",">">>)

\* Witness for C3: a header over two distinct rendered links has been composed.
C3_Witness ==
    /\ req # 0
    /\ last[req].ok
    /\ \E i \in 1..Len(log) :
          /\ pre[log[i].node].name = <<"h","e","a","d","e","r">>
          /\ PropOf(pre[log[i].node].props, SlotKey) = Arr(<<Ref(2), Ref(3)>>)
          /\ pre[2].name = <<"l","i","n","k">>
          /\ pre[3].name = <<"l","i","n","k">>
          /\ Len(ChildEntries(i)) = 2
          /\ ChildEntries(i)[1].out.html # ChildEntries(i)[2].out.html

\* C4: a descriptor whose slot is an array of exactly one string s composes
\* to the same outcome as the same descriptor with slot s.
C4_SingleStringUnwrap ==
    (calls[1] > 0 /\ calls[2] > 0) =>
        /\ first[1] = first[2]
        /\ last[1] = last[2]

\* Witness for C4: both twins have been composed to HTML holding the string.
C4_Witness ==
    /\ calls[1] > 0
    /\ calls[2] > 0
    /\ last[1].ok
    /\ Contains(last[1].html, <<"a","<","b">>)

\* C5: compose leaves the caller's descriptors as they were: every
\* descriptor has the same type and the same props.slot after the call as
\* before it.
C5_InputUnchanged ==
    req # 0 =>
        \A n \in DOMAIN heap :
            /\ heap[n].type = pre[n].type
            /\ PropOf(heap[n].props, SlotKey) = PropOf(pre[n].props, SlotKey)

\* C6: every call of compose on the same tree has the outcome of the first
\* call: the same string, or the same error.
C6_RepeatSame ==
    \A r \in 1..Len(routes) : calls[r] >= 1 => last[r] = first[r]

\* Witness for C6: a tree with two nested descriptors has been composed to
\* HTML at least twice: in the repeated call the parent was rendered over the
\* joined outputs of its children that the first call had stored on it.
C6_Witness ==
    /\ req # 0
    /\ calls[req] >= 2
    /\ last[req].ok
    /\ \E i \in 1..Len(log) :
          /\ log[i].node = 1
          /\ log[i].depth = 0
          /\ Contains(log[i].slot.v, <<"<", "/", "a", ">">> \o NewlineFourSpaces)

\* C7: an error raised by a render function, at any depth, is the outcome of
\* compose: the same error, and no HTML.
C7_RenderErrorPropagates ==
    req # 0 =>
        \A i \in 1..Len(log) : ~log[i].out.ok => last[req] = log[i].out

\* Witness for C7: a render function raised after a sibling had rendered.
C7_Witness ==
    /\ req # 0
    /\ Len(log) >= 2
    /\ log[1].out.ok
    /\ ~log[Len(log)].out.ok
    /\ log[Len(log)].out.err.kind = "Error"

(***************************************************************************)
(* Specification SpecEsc: escapeHtml applied to a bounded set of inputs.   *)
(***************************************************************************)
EscAlphabet == {"&", "<", ">", "\"", "'", "a", ";"}

NonStringInputs ==
    {Null, Undef, Num(<<"7">>), Bool(TRUE), Arr(<<Str(<<"<">>)>>), ObjMap(<<>>)}

EscInputs == {Str(s) : s \in StringsUpTo(EscAlphabet, MaxStrLen)} \cup NonStringInputs

InitEsc ==
    /\ escIn \in EscInputs
    /\ escOut = Pending
    /\ ComposeIdle
    /\ ClsIdle
    /\ UnitIdle

EscapeCall ==
    /\ escOut = Pending
    /\ escOut' = Str(escapeHtml(escIn))
    /\ UNCHANGED <<escIn, composeVars, clsVars, unitVars>>

NextEsc == EscapeCall

SpecEsc == InitEsc /\ [][NextEsc]_vars

Entities == {EntAmp, EntLt, EntGt, EntQuot, EntApos}

\* C8: escapeHtml is total and its output is markup-free: the output of a
\* string holds none of < > " ', every & in it starts one of the five
\* entities, and every non-string input yields the empty string.
C8_EscapeMarkupFree ==
    escOut # Pending =>
        /\ escOut.t = "string"
        /\ escIn.t = "string" =>
              /\ \A i \in 1..Len(escOut.v) :
                    /\ escOut.v[i] \notin {"<", ">", "\"", "'"}
                    /\ escOut.v[i] = "&" =>
                          \E e \in Entities : HasPrefixAt(escOut.v, i, e)
        /\ escIn.t # "string" => escOut.v = <<>>

\* Witness for C8: a string holding markup characters has been escaped, and
\* so has a non-string input.
C8_Witness ==
    /\ escOut # Pending
    /\ escIn.t = "string"
    /\ Includes(escIn.v, "<")
    /\ Includes(escIn.v, "'")
    /\ Includes(escIn.v, "&")

(***************************************************************************)
(* Specification SpecCls: normalizeClasses applied once and twice to a     *)
(* bounded set of class inputs.                                            *)
(***************************************************************************)
MaxClsLen == 3      \* characters in one class string
MaxClsItems == 2    \* elements of a class array, entries of a class map

ClsStrings == StringsUpTo({"a", "b", " "}, MaxClsLen)
ClsKeys == StringsUpTo({"a", "b"}, 2) \ {<<>>}

ClsArrays ==
    UNION {[1..k -> {Str(s) : s \in ClsStrings} \cup {Null}] : k \in 0..MaxClsItems}

ClsMaps ==
    UNION {{m \in [1..k -> [key : ClsKeys, val : {Bool(TRUE), Bool(FALSE)}]] :
               \A i, j \in 1..k : i # j => m[i].key # m[j].key} : k \in 0..MaxClsItems}

ClsInputs ==
    {Str(s) : s \in ClsStrings}
        \cup {Arr(a) : a \in ClsArrays}
        \cup {ObjMap(m) : m \in ClsMaps}
        \cup {Null, Undef, Num(<<"7">>), Bool(TRUE)}

InitCls ==
    /\ clsIn \in ClsInputs
    /\ clsOut = Pending
    /\ clsAgain = Pending
    /\ ComposeIdle
    /\ EscIdle
    /\ UnitIdle

NormalizeCall ==
    /\ clsOut = Pending
    /\ clsOut' = Str(normalizeClasses(clsIn))
    /\ clsAgain' = Str(normalizeClasses(Str(normalizeClasses(clsIn))))
    /\ UNCHANGED <<clsIn, composeVars, escVars, unitVars>>

NextCls == NormalizeCall

SpecCls == InitCls /\ [][NextCls]_vars

\* a whitespace-separated string, an array of strings, or a name -> boolean map
ValidClassInput(x) ==
    \/ x.t = "string"
    \/ x.t = "array" /\ \A i \in 1..Len(x.v) : x.v[i].t = "string"
    \/ x.t = "map"

\* String.prototype.split(' '): the pieces between single spaces
RECURSIVE SplitOnFrom(_, _, _, _)
SplitOnFrom(s, c, i, cur) ==
    IF i > Len(s) THEN <<cur>>
    ELSE IF s[i] = c THEN <<cur>> \o SplitOnFrom(s, c, i + 1, <<>>)
    ELSE SplitOnFrom(s, c, i + 1, Append(cur, s[i]))

\* the tokens of a class string (none for the empty string)
TokensOf(out) == IF out = <<>> THEN <<>> ELSE SplitOnFrom(out, " ", 1, <<>>)

FirstOccurrences(seq) == Keep(seq, {i \in 1..Len(seq) : IndexOf(seq, seq[i]) = i})

\* the class names an input lists, in input order
InputNames(x) ==
    LET raw == CASE x.t = "string" -> SplitWs(x.v)
                 [] x.t = "array" -> [i \in 1..Len(x.v) |-> Trim(x.v[i].v)]
                 [] x.t = "map" ->
                       LET on == Keep(x.v, {i \in 1..Len(x.v) : x.v[i].val = Bool(TRUE)})
                       IN [i \in 1..Len(on) |-> on[i].key]
    IN Keep(raw, {i \in 1..Len(raw) : raw[i] # <<>>})

\* C9: normalizeClasses is idempotent on every valid class input.
C9_Idempotent ==
    (clsOut # Pending /\ ValidClassInput(clsIn)) => clsAgain = clsOut

\* C10: the output of normalizeClasses, split on single spaces, has no empty
\* token, no token twice, and lists the (escaped) surviving class names in
\* order of first occurrence in the input.
C10_TokensUniqueOrdered ==
    (clsOut # Pending /\ ValidClassInput(clsIn)) =>
        LET toks == TokensOf(clsOut.v)
            names == FirstOccurrences(InputNames(clsIn))
        IN /\ \A i \in 1..Len(toks) : toks[i] # <<>>
           /\ \A i, j \in 1..Len(toks) : i # j => toks[i] # toks[j]
           /\ toks = [i \in 1..Len(names) |-> escapeAttr(Str(names[i]))]

(***************************************************************************)
(* Specification SpecSlot: one call of processSlot(slot, options) or of     *)
(* processSlotUser(slot).                                                  *)
(***************************************************************************)
MaxSlotLen == 2     \* longest string in a slot value
MaxSlotItems == 3   \* most elements of a slot array

SlotAlphabet == {"a", "<", ">", "&", " "}

SlotStrings == {Str(s) : s \in StringsUpTo(SlotAlphabet, MaxSlotLen)}

\* elements of a slot array: strings, null, undefined, a number, a
\* descriptor object, nested arrays
SlotItems ==
    {Str(<<>>), Str(<<"a">>), Str(<<"<">>), Str(<<" ">>), Null, Undef, Num(<<"7">>),
     ObjMap(<<>>), Arr(<<Str(<<"<", "b", ">">>)>>), Arr(<<Num(<<"1">>), Null>>)}

SlotArrays == {Arr(a) : a \in StringsUpTo(SlotItems, MaxSlotItems)}

SlotInputs ==
    SlotStrings \cup SlotArrays
        \cup {Null, Undef, Num(<<"0">>), Num(<<"4", "2">>), Bool(TRUE), Bool(FALSE), ObjMap(<<>>)}

EscapeKey == <<"e","s","c","a","p","e">>
TrimKey == <<"t","r","i","m">>

\* the options argument: Undef when the call passes none
SlotOptions ==
    {Undef, ObjMap(<<>>),
     ObjMap(<<KV(EscapeKey, Bool(FALSE))>>),
     ObjMap(<<KV(TrimKey, Bool(TRUE))>>),
     ObjMap(<<KV(EscapeKey, Bool(TRUE)), KV(TrimKey, Bool(TRUE))>>),
     ObjMap(<<KV(EscapeKey, Bool(FALSE)), KV(TrimKey, Bool(TRUE))>>)}

\* const { escape = true, trim = false } = options, with options = {}
OptionOf(options, key, default) ==
    Truthy(Dflt(PropOf(Dflt(options, ObjMap(<<>>)).v, key), Bool(default)))

InitSlot ==
    /\ \E slot \in SlotInputs, options \in SlotOptions : args = <<slot, options>>
    /\ ret = Pending
    /\ ComposeIdle
    /\ EscIdle
    /\ ClsIdle

ProcessSlotCall ==
    /\ ret.t = "pending"
    /\ ret' = [t |-> "processSlot",
               v |-> processSlot(args[1], OptionOf(args[2], EscapeKey, TRUE),
                                 OptionOf(args[2], TrimKey, FALSE))]
    /\ UNCHANGED <<args, composeVars, escVars, clsVars>>

ProcessSlotUserCall ==
    /\ ret.t = "pending"
    /\ ret' = [t |-> "processSlotUser", v |-> processSlotUser(args[1])]
    /\ UNCHANGED <<args, composeVars, escVars, clsVars>>

NextSlot == ProcessSlotCall \/ ProcessSlotUserCall

SpecSlot == InitSlot /\ [][NextSlot]_vars

\* C11: the string returned by processSlotUser, and by processSlot with the
\* default options, holds no < and no > character, whatever the slot value.
C11_UserSlotEscaped ==
    (ret.t = "processSlotUser" \/ (ret.t = "processSlot" /\ args[2] = Undef)) =>
        \A i \in 1..Len(ret.v) : ret.v[i] \notin {"<", ">"}

\* the entity escapeHtml gives one character
EscChar(c) ==
    CASE c = "&" -> EntAmp
      [] c = "<" -> EntLt
      [] c = ">" -> EntGt
      [] c = "\"" -> EntQuot
      [] c = "'" -> EntApos
      [] OTHER -> <<c>>

\* the concatenation, with no separator, of a sequence of strings
RECURSIVE ConcatAll(_)
ConcatAll(strs) == IF strs = <<>> THEN <<>> ELSE Head(strs) \o ConcatAll(Tail(strs))

EscapedText(s) == ConcatAll([i \in 1..Len(s) |-> EscChar(s[i])])

\* t is s without its leading and trailing whitespace
IsTrimOf(t, s) ==
    \E i \in 1..(Len(s) + 1) :
        /\ \A j \in 1..(i - 1) : s[j] \in WS
        /\ HasPrefixAt(s, i, t)
        /\ \A j \in (i + Len(t))..Len(s) : s[j] \in WS
        /\ t # <<>> => t[1] \notin WS /\ t[Len(t)] \notin WS

\* the slot values of the table: every shape but arrays holding something
\* other than strings and nulls
InSlotTable(slot) ==
    slot.t = "array" => \A i \in 1..Len(slot.v) : slot.v[i].t \in {"string", "null"}

\* the table's value for slot before trimming
SlotTableValue(slot, escape) ==
    CASE slot.t = "string" -> IF escape THEN EscapedText(slot.v) ELSE slot.v
      [] slot.t = "array" ->
            ConcatAll([i \in 1..Len(slot.v) |->
                          IF slot.v[i].t = "null" THEN <<>>
                          ELSE IF escape THEN EscapedText(slot.v[i].v) ELSE slot.v[i].v])
      [] slot.t \in {"number", "boolean"} -> slot.v
      [] OTHER -> <<>>

\* C12: processSlot returns, for every slot value of the table and every
\* options object, the table's string: '' for null and undefined, the string
\* escaped or verbatim, the non-null elements of an array of strings and
\* nulls concatenated without separator, String(slot) for a number or a
\* boolean, '' for any other type; strings and arrays trimmed when trim is
\* set.
C12_ProcessSlotTable ==
    (ret.t = "processSlot" /\ InSlotTable(args[1])) =>
        LET escape == OptionOf(args[2], EscapeKey, TRUE)
            trim == OptionOf(args[2], TrimKey, FALSE)
            expected == SlotTableValue(args[1], escape)
        IN IF trim /\ args[1].t \in {"string", "array"}
           THEN IsTrimOf(ret.v, expected)
           ELSE ret.v = expected

\* Witness for C12: an array of a string with markup, a null and a second
\* string was processed with escape and trim set, and trimming removed
\* something.
C12_Witness ==
    /\ ret.t = "processSlot"
    /\ args[1].t = "array"
    /\ Len(args[1].v) = 3
    /\ args[1].v[1] = Str(<<"<">>)
    /\ args[1].v[2] = Null
    /\ args[1].v[3] = Str(<<" ">>)
    /\ OptionOf(args[2], TrimKey, FALSE)
    /\ OptionOf(args[2], EscapeKey, TRUE)
    /\ ret.v = EntLt

(***************************************************************************)
(* Specification SpecValidate: one call of validateProps or of             *)
(* validatePropTypes, of utils/componentError.js or of                     *)
(* utils/validateProps.js, on args = <<props, required, schema, context>>.  *)
(***************************************************************************)
MaxRequired == 2    \* most names in required, most keys in a schema

UrlKey == <<"u","r","l">>

PropKeys == {UrlKey, SlotKey}

\* values a prop holds (Pending: the props object has no such property)
PropValues ==
    {Pending, Undef, Null, Str(<<>>), Str(<<"a">>), Num(<<"0">>), Bool(FALSE), Arr(<<>>)}

PropsOver(u, s) ==
    (IF u = Pending THEN <<>> ELSE <<KV(UrlKey, u)>>)
        \o (IF s = Pending THEN <<>> ELSE <<KV(SlotKey, s)>>)

RequiredLists == StringsUpTo(PropKeys, MaxRequired)

TypeNames == {<<"s","t","r","i","n","g">>, <<"a","r","r","a","y">>, <<"n","u","m","b","e","r">>}

\* schemas: object literals, so no key twice
Schemas ==
    {sch \in StringsUpTo({KV(k, ty) : k \in PropKeys, ty \in TypeNames}, MaxRequired) :
        \A i, j \in 1..Len(sch) : i # j => sch[i].key # sch[j].key}

Contexts ==
    {[componentName |-> <<"l","i","n","k">>, componentType |-> <<"a","t","o","m">>],
     [componentName |-> <<"h","e","a","d","e","r">>, componentType |-> <<"o","r","g","a","n","i","s","m">>]}

InitValidate ==
    /\ \E u \in PropValues, s \in PropValues, required \in RequiredLists,
          schema \in Schemas, context \in Contexts :
          args = <<PropsOver(u, s), required, schema, context>>
    /\ ret = Pending
    /\ ComposeIdle
    /\ EscIdle
    /\ ClsIdle

ValidatePropsCall ==
    /\ ret.t = "pending"
    /\ ret' = [t |-> "validateProps", v |-> validateProps(args[1], args[2], args[4])]
    /\ UNCHANGED <<args, composeVars, escVars, clsVars>>

ValidatePropsJsCall ==
    /\ ret.t = "pending"
    /\ ret' = [t |-> "validateProps",
               v |-> validatePropsJs_validateProps(args[1], args[2], args[4])]
    /\ UNCHANGED <<args, composeVars, escVars, clsVars>>

ValidatePropTypesCall ==
    /\ ret.t = "pending"
    /\ ret' = [t |-> "validatePropTypes", v |-> validatePropTypes(args[1], args[3], args[4])]
    /\ UNCHANGED <<args, composeVars, escVars, clsVars>>

ValidatePropTypesJsCall ==
    /\ ret.t = "pending"
    /\ ret' = [t |-> "validatePropTypes",
               v |-> validatePropsJs_validatePropTypes(args[1], args[3], args[4])]
    /\ UNCHANGED <<args, composeVars, escVars, clsVars>>

NextValidate ==
    \/ ValidatePropsCall
    \/ ValidatePropsJsCall
    \/ ValidatePropTypesCall
    \/ ValidatePropTypesJsCall

SpecValidate == InitValidate /\ [][NextValidate]_vars

\* the names of required, in order, that props maps to undefined, null or ''
MissingNames(props, required) ==
    Keep(required, {i \in 1..Len(required) :
            PropOf(props, required[i]) \in {Undef, Null, Str(<<>>)}})

\* "[type/name]" of a context
ComponentLabel(context) ==
    <<"[">> \o context.componentType \o <<"/">> \o context.componentName \o <<"]">>

\* C13: validateProps raises exactly when some required name maps to
\* undefined, null or ''; the error names the component and lists every
\* missing name in the order of required; otherwise it returns.
C13_MissingPropsReported ==
    ret.t = "validateProps" =>
        LET missing == MissingNames(args[1], args[2])
        IN IF missing = <<>> THEN ret.v = NoErr
           ELSE /\ ret.v # NoErr
                /\ Contains(ret.v.msg, ComponentLabel(args[4]))
                /\ Contains(ret.v.msg, Join(missing, <<",", " ">>))

\* the schema keys whose prop is defined and of another shape than declared
MismatchedKeys(props, schema) ==
    {schema[i].key : i \in {j \in 1..Len(schema) :
        /\ PropOf(props, schema[j].key) # Undef
        /\ ActualType(PropOf(props, schema[j].key)) # schema[j].val}}

\* C14: validatePropTypes raises exactly when some schema key has a defined
\* prop whose shape differs from the declared type, and the one error lists
\* every such key.
C14_TypeMismatchesReported ==
    ret.t = "validatePropTypes" =>
        LET bad == MismatchedKeys(args[1], args[3])
        IN IF bad = {} THEN ret.v = NoErr
           ELSE /\ ret.v # NoErr
                /\ \A k \in bad :
                      \/ Contains(ret.v.msg, k \o <<":"," ","e","x","p","e","c","t","e","d"," ">>)
                      \/ Contains(ret.v.msg, <<"'">> \o k \o <<"'"," ","e","x","p","e","c","t","e","d"," ">>)

(***************************************************************************)
(* Specification SpecButton: compose on the single descriptor              *)
(* {type: 'atom', name: 'button', props}.                                  *)
(***************************************************************************)
TypeKey == <<"t","y","p","e">>
AttrsKey == <<"a","t","t","r","s">>
ClassNameKey == <<"c","l","a","s","s","N","a","m","e">>

\* props as an object literal: the properties that are given, in order
PropsOf(pairs) == Keep(pairs, {i \in 1..Len(pairs) : pairs[i].val # Pending})

ButtonTypes ==
    {Pending, Str(<<"b","u","t","t","o","n">>), Str(<<"s","u","b","m","i","t">>), Str(<<"r","e","s","e","t">>), Str(<<"l","i","n","k">>), Str(<<>>),
     Str(<<"S","u","b","m","i","t">>), Null, Num(<<"1">>)}

ButtonClassNames == {Pending, Str(<<>>), Str(<<"p","r","i","m","a","r","y">>), Str(<<"p","r","i","m","a","r","y"," ","l","a","r","g","e">>)}

ButtonAttrs == {Pending, Str(<<>>), Str(<<"i","d","=","\"","x","\"">>), Str(<<"d","i","s","a","b","l","e","d">>)}

ButtonSlots ==
    {Pending, Str(<<>>), Str(<<"C","l","i","c","k"," ","M","e">>), Str(<<"a","<","b">>), Arr(<<Str(<<"C","l","i","c","k"," ","M","e">>)>>),
     Arr(<<Str(<<"a">>), Str(<<"b">>)>>)}

InitButton ==
    /\ \E ty \in ButtonTypes, sl \in ButtonSlots, cn \in ButtonClassNames, at \in ButtonAttrs :
          heap = <<Desc(<<"a","t","o","m">>, <<"b","u","t","t","o","n">>,
                        PropsOf(<<KV(TypeKey, ty), KV(SlotKey, sl),
                                  KV(ClassNameKey, cn), KV(AttrsKey, at)>>))>>
    /\ routes = <<Arr(<<Ref(1)>>)>>
    /\ calls = [r \in 1..Len(routes) |-> 0]
    /\ first = [r \in 1..Len(routes) |-> NoOutcome]
    /\ last = [r \in 1..Len(routes) |-> NoOutcome]
    /\ pre = heap
    /\ log = <<>>
    /\ req = 0
    /\ EscIdle
    /\ ClsIdle
    /\ UnitIdle

SpecButton == InitButton /\ [][Next]_vars

\* the non-empty whitespace-separated tokens of a string
Tokens(s) == LET parts == SplitWs(s) IN Keep(parts, {i \in 1..Len(parts) : parts[i] # <<>>})

ValidButtonTypes == {Str(<<"b","u","t","t","o","n">>), Str(<<"s","u","b","m","i","t">>), Str(<<"r","e","s","e","t">>)}

\* <button type="T" class="btn tokens" attrs>S</button>
ButtonHtml(type, className, attrs, slot) ==
    <<"<","b","u","t","t","o","n"," ","t","y","p","e","=","\"">> \o type \o <<"\""," ","c","l","a","s","s","=","\"">>
        \o Join(<<<<"b","t","n">>>> \o Tokens(className), <<" ">>) \o <<"\"">>
        \o (IF attrs = <<>> THEN <<>> ELSE <<" ">> \o attrs)
        \o <<">">> \o slot \o <<"<","/","b","u","t","t","o","n",">">>

TheButtonProps ==
    <<KV(TypeKey, Str(<<"s","u","b","m","i","t">>)), KV(SlotKey, Str(<<"C","l","i","c","k"," ","M","e">>)),
      KV(ClassNameKey, Str(<<"p","r","i","m","a","r","y">>)), KV(AttrsKey, Str(<<"i","d","=","\"","x","\"">>))>>

IdKey == <<"i","d">>
RoleKey == <<"r","o","l","e">>

HeaderAttrs == {Pending, Str(<<>>), Str(<<"d","a","t","a","-","t","e","s","t","=","\"","h","e","a","d","e","r","\"">>), Str(<<"h","i","d","d","e","n">>)}

HeaderClassNames == {Pending, Str(<<>>), Str(<<"c","u","s","t","o","m","-","h","e","a","d","e","r">>)}

HeaderSlots ==
    {Pending, Str(<<>>), Str(<<"S">>), Str(<<"<","n","a","v",">","n","<","/","n","a","v",">">>),
     Str(<<"<","h","1"," ","c","l","a","s","s","=","\"","h","e","a","d","e","r","-","t","i","t","l","e","\"",">","T","h","i","s"," ","i","s"," ","t","h","e"," ","h","e","a","d","e","r","<","/","h","1",">">>)}

HeaderIds == {Pending, Str(<<"t","o","p">>)}

HeaderRoles == {Pending, Str(<<"b","a","n","n","e","r">>)}

InitHeader ==
    /\ \E at \in HeaderAttrs, cn \in HeaderClassNames, sl \in HeaderSlots,
          id \in HeaderIds, role \in HeaderRoles :
          args = <<PropsOf(<<KV(AttrsKey, at), KV(ClassNameKey, cn), KV(SlotKey, sl),
                             KV(IdKey, id), KV(RoleKey, role)>>)>>
    /\ ret = Pending
    /\ ComposeIdle
    /\ EscIdle
    /\ ClsIdle

HeaderCall ==
    /\ ret.t = "pending"
    /\ ret' = [t |-> "header", v |-> header(args[1])]
    /\ UNCHANGED <<args, composeVars, escVars, clsVars>>

NextHeader == HeaderCall

SpecHeader == InitHeader /\ [][NextHeader]_vars

TheHeaderProps ==
    <<KV(AttrsKey, Str(<<"d","a","t","a","-","t","e","s","t","=","\"","h","e","a","d","e","r","\"">>)), KV(ClassNameKey, Str(<<"c","u","s","t","o","m","-","h","e","a","d","e","r">>)),
      KV(SlotKey, Str(<<"<","h","1"," ","c","l","a","s","s","=","\"","h","e","a","d","e","r","-","t","i","t","l","e","\"",">","T","h","i","s"," ","i","s"," ","t","h","e"," ","h","e","a","d","e","r","<","/","h","1",">">>))>>

\* C16: header emits attrs raw: the opening tag of every header rendered
\* with a non-empty attrs ends with one space and the attrs string, character
\* for character, and the props of the header test give the test's expected
\* string.
C16_AttrsRaw ==
    (ret.t = "header" /\ ret.v.ok) =>
        LET attrs == Dflt(PropOf(args[1], AttrsKey), Str(<<>>)).v
            slot == PropOf(args[1], SlotKey).v
        IN /\ attrs # <<>> =>
                 Contains(ret.v.html, <<" ">> \o attrs \o <<">">> \o slot \o <<"<","/","h","e","a","d","e","r",">">>)
           /\ args[1] = TheHeaderProps =>
                 ret.v.html = <<"<","h","e","a","d","e","r"," ","c","l","a","s","s","=","\"","h","e","a","d","e","r"," ","c","u","s","t","o","m","-","h","e","a","d","e","r","\""," ","d","a","t","a","-","t","e","s","t","=","\"","h","e","a","d","e","r","\"",">","<","h","1"," ","c","l","a","s","s","=","\"","h","e","a","d","e","r","-","t","i","t","l","e","\"",">","T","h","i","s"," ","i","s"," ","t","h","e"," ","h","e","a","d","e","r","<","/","h","1",">","<","/","h","e","a","d","e","r",">">>

(***************************************************************************)
(* renderPage (the page shell) and specification SpecPage: one call of     *)
(* renderPage(content, meta).                                              *)
(***************************************************************************)
\* document(): the fixed shell
document ==
    <<"<","!","D","O","C","T","Y","P","E"," ","h","t","m","l",">","\n","<","h","t","m","l"," ","l","a","n","g","=","\"","e","n","\"",">","\n","<","h","e","a","d",">","\n"," "," "," "," ","<","m","e","t","a"," ","c","h","a","r","s","e","t","=","\"","U","T","F","-","8","\"",">","\n"," "," "," "," ","<","m","e","t","a"," ","n","a","m","e","=","\"","v","i","e","w","p","o","r","t","\""," ","c","o","n","t","e","n","t","=","\"","w","i","d","t","h","=","d","e","v","i","c","e","-","w","i","d","t","h",","," ","i","n","i","t","i","a","l","-","s","c","a","l","e","=","1",".","0","\"",">","\n"," "," "," "," ","<","t","i","t","l","e",">","F","l","e","s","h"," ","S","e","r","v","e","r","<","/","t","i","t","l","e",">","\n"," "," "," "," ","<","s","t","y","l","e",">","\n"," "," "," "," ","<","/","s","t","y","l","e",">","\n","<","/","h","e","a","d",">","\n","<","b","o","d","y",">","\n"," "," "," "," ","<","d","i","v"," ","i","d","=","\"","a","p","p","\"","/",">","\n","<","/","b","o","d","y",">","\n","<","/","h","t","m","l",">">>

\* 1-based index of the first occurrence of pattern in s at or after i (0 if none)
IndexOfSub(s, pattern, i) ==
    LET hits == {k \in i..(Len(s) + 1) : HasPrefixAt(s, k, pattern)}
    IN IF hits = {} THEN 0 ELSE CHOOSE k \in hits : \A j \in hits : k <= j

\* the replacement string of String.prototype.replace with its $ patterns
\* expanded: $$ a dollar, $& the match, $ and a backtick the text before it,
\* $ and a quote the text after it (a string pattern has no groups, so $1
\* stays as it is)
\* the grave accent character, which a TLA+ string cannot hold
Backtick == "U+0060"

RECURSIVE ExpandReplacement(_, _, _, _)
ExpandReplacement(rep, matched, before, after) ==
    LET at == {i \in 1..(Len(rep) - 1) :
                  rep[i] = "$" /\ rep[i + 1] \in {"$", "&", Backtick, "'"}}
    IN IF at = {} THEN rep
       ELSE LET i == CHOOSE k \in at : \A j \in at : k <= j
            IN SubSeq(rep, 1, i - 1)
               \o (CASE rep[i + 1] = "$" -> <<"$">>
                      [] rep[i + 1] = "&" -> matched
                      [] rep[i + 1] = Backtick -> before
                      [] OTHER -> after)
               \o ExpandReplacement(SubSeq(rep, i + 2, Len(rep)), matched, before, after)

\* s.replace(pattern, rep) for a string pattern: the first occurrence only
StringReplace(s, pattern, rep) ==
    LET i == IndexOfSub(s, pattern, 1)
    IN IF i = 0 THEN s
       ELSE LET before == SubSeq(s, 1, i - 1)
                after == SubSeq(s, i + Len(pattern), Len(s))
            IN before \o ExpandReplacement(rep, pattern, before, after) \o after

HeadEnd == <<"<","/","h","e","a","d",">">>
AppDiv == <<"<","d","i","v"," ","i","d","=","\"","a","p","p","\"","/",">">>

\* Object.entries(meta).map(([name, content]) => <meta ...>).join('\n    ')
metaTagsOf(meta) ==
    Join([i \in 1..Len(meta.v) |->
             <<"<","m","e","t","a"," ","n","a","m","e","=","\"">> \o meta.v[i].key \o <<"\""," ","c","o","n","t","e","n","t","=","\"">>
                 \o JSToString(meta.v[i].val) \o <<"\"",">">>],
         <<"\n"," "," "," "," ">>)

renderPage(content, meta) ==
    LET metaTags == metaTagsOf(Dflt(meta, ObjMap(<<>>)))
    IN StringReplace(
           StringReplace(document, HeadEnd, metaTags \o <<"\n","<","/","h","e","a","d",">">>),
           AppDiv,
           <<"<","d","i","v"," ","i","d","=","\"","a","p","p","\"",">","\n"," "," "," "," "," "," "," "," ">> \o JSToString(content) \o <<"\n"," "," "," "," ","<","/","d","i","v",">">>)

MaxContentLen == 2  \* longest content string drawn from PageAlphabet
MaxMeta == 2        \* most entries of the meta map

PageAlphabet == {"a", "<", "$", "&"}

PageContents ==
    {Str(s) : s \in StringsUpTo(PageAlphabet, MaxContentLen)}
        \cup {Str(<<"<","p"," ","c","l","a","s","s","=","\"","t","e","x","t","\"",">","H","e","l","l","o","<","/","p",">">>), Str(AppDiv)}

MetaNames == {<<"t","i","t","l","e">>, <<"d","e","s","c","r","i","p","t","i","o","n">>, <<"a","u","t","h","o","r">>}

MetaValues == {Str(<<"M","y"," ","P","a","g","e">>), Str(<<"a","$","&">>), Str(AppDiv)}

\* meta maps: object literals, so no name twice; Undef when the call passes none
PageMetas ==
    {Undef} \cup
    {ObjMap(m) : m \in {e \in StringsUpTo({KV(k, v) : k \in MetaNames, v \in MetaValues}, MaxMeta) :
                           \A i, j \in 1..Len(e) : i # j => e[i].key # e[j].key}}

InitPage ==
    /\ \E content \in PageContents, meta \in PageMetas : args = <<content, meta>>
    /\ ret = Pending
    /\ ComposeIdle
    /\ EscIdle
    /\ ClsIdle

RenderPageCall ==
    /\ ret.t = "pending"
    /\ ret' = [t |-> "renderPage", v |-> renderPage(args[1], args[2])]
    /\ UNCHANGED <<args, composeVars, escVars, clsVars>>

NextPage == RenderPageCall

SpecPage == InitPage /\ [][NextPage]_vars

\* the shell up to </head>, between </head> and the app element, after it
ShellHead ==
    <<"<","!","D","O","C","T","Y","P","E"," ","h","t","m","l",">","\n","<","h","t","m","l"," ","l","a","n","g","=","\"","e","n","\"",">","\n","<","h","e","a","d",">","\n"," "," "," "," ","<","m","e","t","a"," ","c","h","a","r","s","e","t","=","\"","U","T","F","-","8","\"",">","\n"," "," "," "," ","<","m","e","t","a"," ","n","a","m","e","=","\"","v","i","e","w","p","o","r","t","\""," ","c","o","n","t","e","n","t","=","\"","w","i","d","t","h","=","d","e","v","i","c","e","-","w","i","d","t","h",","," ","i","n","i","t","i","a","l","-","s","c","a","l","e","=","1",".","0","\"",">","\n"," "," "," "," ","<","t","i","t","l","e",">","F","l","e","s","h"," ","S","e","r","v","e","r","<","/","t","i","t","l","e",">","\n"," "," "," "," ","<","s","t","y","l","e",">","\n"," "," "," "," ","<","/","s","t","y","l","e",">","\n">>
ShellMid == <<"\n","<","b","o","d","y",">","\n"," "," "," "," ">>
ShellTail == <<"\n","<","/","b","o","d","y",">","\n","<","/","h","t","m","l",">">>

\* one <meta> tag per entry, in order, each followed by the text that
\* separates it from the next tag or from </head>
RECURSIVE MetaLines(_)
MetaLines(entries) ==
    IF entries = <<>> THEN <<>>
    ELSE <<"<","m","e","t","a"," ","n","a","m","e","=","\"">> \o Head(entries).key \o <<"\""," ","c","o","n","t","e","n","t","=","\"">> \o Head(entries).val.v \o <<"\"",">">>
         \o (IF Len(entries) = 1 THEN <<>> ELSE <<"\n"," "," "," "," ">>) \o MetaLines(Tail(entries))

\* C17: renderPage returns the shell with one <meta name="K" content="V">
\* per meta entry, in insertion order, right before </head>, and content
\* verbatim, once, inside <div id="app">, whatever characters the content
\* and the meta values hold.
C17_PageShell ==
    ret.t = "renderPage" =>
        ret.v = ShellHead \o MetaLines(Dflt(args[2], ObjMap(<<>>)).v) \o <<"\n","<","/","h","e","a","d",">">>
                    \o ShellMid \o <<"<","d","i","v"," ","i","d","=","\"","a","p","p","\"",">","\n"," "," "," "," "," "," "," "," ">> \o args[1].v
                    \o <<"\n"," "," "," "," ","<","/","d","i","v",">">> \o ShellTail

(***************************************************************************)
(* router and specification SpecRouter: one call of router(url, routes).   *)
(* A URL is its href string; a route is an object literal whose pattern    *)
(* is a URLPattern given by its pathname string.                           *)
(***************************************************************************)
Origin == <<"h","t","t","p",":","/","/","h">>

\* new URL(url).pathname: the text after the origin up to the first '?'
pathnameOf(href) ==
    LET rest == SubSeq(href, Len(Origin) + 1, Len(href))
        q == IndexOf(rest, "?")
    IN IF q = 0 THEN rest ELSE SubSeq(rest, 1, q - 1)

\* new URL(url).search without its '?'
searchOf(href) ==
    LET q == IndexOf(href, "?")
    IN IF q = 0 THEN <<>> ELSE SubSeq(href, q + 1, Len(href))

\* Object.fromEntries(searchParams.entries()): a repeated name keeps its
\* first position and takes its last value
RECURSIVE fromEntries(_, _)
fromEntries(pairs, obj) ==
    IF pairs = <<>> THEN obj
    ELSE LET eq == IndexOf(Head(pairs), "=")
             name == IF eq = 0 THEN Head(pairs) ELSE SubSeq(Head(pairs), 1, eq - 1)
             value == IF eq = 0 THEN <<>> ELSE SubSeq(Head(pairs), eq + 1, Len(Head(pairs)))
         IN fromEntries(Tail(pairs), SetProp(obj, name, Str(value)))

queryOf(href) ==
    LET search == searchOf(href)
    IN ObjMap(fromEntries(IF search = <<>> THEN <<>> ELSE SplitOnFrom(search, "&", 1, <<>>), <<>>))

\* the groups of a pathname pattern for a pathname, segment by segment: a
\* ':name' segment takes any non-empty segment, any other segment itself;
\* Null when a segment does not match
RECURSIVE matchSegments(_, _, _)
matchSegments(pat, path, groups) ==
    IF pat = <<>> THEN ObjMap(groups)
    ELSE IF Head(pat) # <<>> /\ Head(Head(pat)) = ":"
    THEN IF Head(path) = <<>> THEN Null
         ELSE matchSegments(Tail(pat), Tail(path), Append(groups, KV(Tail(Head(pat)), Str(Head(path)))))
    ELSE IF Head(pat) = Head(path) THEN matchSegments(Tail(pat), Tail(path), groups)
    ELSE Null

\* route.pattern.exec(href) of URLPattern({pathname}): match.pathname.groups,
\* or Null
patternExec(pattern, href) ==
    LET pat == SplitOnFrom(pattern.v, "/", 1, <<>>)
        path == SplitOnFrom(pathnameOf(href), "/", 1, <<>>)
    IN IF Len(pat) # Len(path) THEN Null ELSE matchSegments(pat, path, <<>>)

ParamsKey == <<"p","a","r","a","m","s">>
HandlerKey == <<"h","a","n","d","l","e","r">>
QueryKey == <<"q","u","e","r","y">>
MetaKey == <<"m","e","t","a">>
PatternKey == <<"p","a","t","t","e","r","n">>
ComponentsKey == <<"c","o","m","p","o","n","e","n","t","s">>
NameKey == <<"n","a","m","e">>

\* { ...o, ...route }: the own properties of route set on o, in order
RECURSIVE spread(_, _)
spread(o, route) ==
    IF route = <<>> THEN o
    ELSE spread(SetProp(o, Head(route).key, Head(route).val), Tail(route))

\* the object literal without its ...route
matchedRouteNoSpread(route, groups, query) ==
    <<KV(ParamsKey, groups), KV(HandlerKey, PropOf(route, HandlerKey)),
      KV(QueryKey, query), KV(MetaKey, PropOf(route, MetaKey))>>

\* { params, handler, query, meta, ...route }
matchedRoute(route, groups, query) ==
    spread(<<KV(ParamsKey, groups), KV(HandlerKey, PropOf(route, HandlerKey)),
             KV(QueryKey, query), KV(MetaKey, PropOf(route, MetaKey))>>, route)

RECURSIVE routerFrom(_, _, _)
routerFrom(href, routes_, i) ==
    IF i > Len(routes_) THEN Null
    ELSE LET match == patternExec(PropOf(routes_[i].v, PatternKey), href)
         IN IF match # Null
            THEN ObjMap(matchedRoute(routes_[i].v, match, queryOf(href)))
            ELSE routerFrom(href, routes_, i + 1)

router(url, routes_) == routerFrom(url.v, routes_, 1)

MaxRoutes == 2      \* most routes in the table

\* the URLs requested: href, with the pathname segments and the query
\* parameters it stands for
UrlPaths ==
    {[text |-> <<"/">>, segs |-> <<<<>>>>],
     [text |-> <<"/","a","b","o","u","t">>, segs |-> <<<<"a","b","o","u","t">>>>],
     [text |-> <<"/","b","l","o","g","/","1">>, segs |-> <<<<"b","l","o","g">>, <<"1">>>>],
     [text |-> <<"/","b","l","o","g","/">>, segs |-> <<<<"b","l","o","g">>, <<>>>>],
     [text |-> <<"/","x">>, segs |-> <<<<"x">>>>]}

UrlQueries ==
    {[text |-> <<>>, params |-> <<>>],
     [text |-> <<"?","a","=","1">>, params |-> <<KV(<<"a">>, Str(<<"1">>))>>],
     [text |-> <<"?","a","=","1","&","b","=","2">>, params |-> <<KV(<<"a">>, Str(<<"1">>)), KV(<<"b">>, Str(<<"2">>))>>],
     [text |-> <<"?","a","=","1","&","a","=","2">>, params |-> <<KV(<<"a">>, Str(<<"2">>))>>]}

UrlCases ==
    {[href |-> Origin \o p.text \o q.text, segs |-> p.segs, params |-> q.params] :
        p \in UrlPaths, q \in UrlQueries}

\* the pathname patterns of the routes, with their segments: a literal
\* text, or a named group
Lit(segment) == [group |-> FALSE, text |-> segment]
Grp(groupName) == [group |-> TRUE, text |-> groupName]

PatternCases ==
    {[pathname |-> <<"/">>, segs |-> <<Lit(<<>>)>>],
     [pathname |-> <<"/","a","b","o","u","t">>, segs |-> <<Lit(<<"a","b","o","u","t">>)>>],
     [pathname |-> <<"/","b","l","o","g","/",":","p","o","s","t","i","d">>, segs |-> <<Lit(<<"b","l","o","g">>), Grp(<<"p","o","s","t","i","d">>)>>],
     [pathname |-> <<"/","b","l","o","g","/","1">>, segs |-> <<Lit(<<"b","l","o","g">>), Lit(<<"1">>)>>],
     [pathname |-> <<"/",":","p","a","g","e">>, segs |-> <<Grp(<<"p","a","g","e">>)>>]}

URLPattern(pathname) == [t |-> "URLPattern", v |-> pathname]

\* a route as routes.js writes it: name, pattern, meta, components
Route(tag, pathname) ==
    ObjMap(<<KV(NameKey, Str(tag)),
             KV(PatternKey, URLPattern(pathname)),
             KV(MetaKey, ObjMap(<<KV(<<"t","i","t","l","e">>, Str(tag))>>)),
             KV(ComponentsKey, Arr(<<ObjMap(<<KV(NameKey, Str(<<"t","e","x","t">>)), KV(SlotKey, Str(tag))>>)>>))>>)

RouteSet == {Route(tag, c.pathname) : tag \in {<<"H","o","m","e">>, <<"B","l","o","g">>}, c \in PatternCases}

RouteTables == StringsUpTo(RouteSet, MaxRoutes)

InitRouter ==
    /\ \E u \in UrlCases, table \in RouteTables : args = <<Str(u.href), table>>
    /\ ret = Pending
    /\ ComposeIdle
    /\ EscIdle
    /\ ClsIdle

RouterCall ==
    /\ ret.t = "pending"
    /\ ret' = [t |-> "router", v |-> router(args[1], args[2])]
    /\ UNCHANGED <<args, composeVars, escVars, clsVars>>

NextRouter == RouterCall

SpecRouter == InitRouter /\ [][NextRouter]_vars

UrlCaseOf(href) == CHOOSE u \in UrlCases : u.href = href

PatternCaseOf(route) ==
    CHOOSE c \in PatternCases : c.pathname = PropOf(route.v, PatternKey).v

\* the pattern of a route matches the pathname of a URL
Matches(route, u) ==
    LET segs == PatternCaseOf(route).segs
    IN /\ Len(segs) = Len(u.segs)
       /\ \A i \in 1..Len(segs) :
             IF segs[i].group THEN u.segs[i] # <<>> ELSE u.segs[i] = segs[i].text

\* the path groups of a matching route for a URL, in pattern order
GroupsOf(route, u) ==
    LET segs == PatternCaseOf(route).segs
        named == Keep([i \in 1..Len(segs) |-> i], {i \in 1..Len(segs) : segs[i].group})
    IN [k \in 1..Len(named) |-> KV(segs[named[k]].text, Str(u.segs[named[k]]))]

Tiers == {<<"a","t","o","m">>, <<"m","o","l","e","c","u","l","e">>, <<"o","r","g","a","n","i","s","m">>}

\* C19: compose invokes a function for a descriptor of one of the three
\* tiers only when the tier's table defines the descriptor's name; for every
\* other name, inherited names such as constructor and toString included,
\* nothing is invoked.
C19_OnlyRegisteredNames ==
    req # 0 =>
        \A i \in 1..Len(log) :
            LET d == heap[log[i].node]
            IN d.type \in Tiers => d.name \in TierNames(d.type)

(***************************************************************************)
(* Specification SpecTier: compose on one descriptor whose type is any     *)
(* string, a tier name in some case or not a tier name at all.             *)
(***************************************************************************)
TierTypes ==
    {<<"a","t","o","m">>, <<"A","T","O","M">>, <<"O","r","g","a","n","i","s","m">>, <<"o","r","g","a","n","i","s","m">>, <<"m","o","l","e","c","u","l","e">>, <<"w","i","d","g","e","t">>, <<"a","t","o","m","s">>, <<>>}

TierNamesTried == {<<"l","i","n","k">>, <<"t","e","x","t">>, <<"h","e","a","d","e","r">>, <<"n","o","p","e">>}

TierSlots == {Pending, Str(<<"H","i">>), Arr(<<Str(<<"H","i">>)>>), Arr(<<Str(<<"a">>), Str(<<"b">>)>>)}

InitTier ==
    /\ \E type \in TierTypes, name \in TierNamesTried, slot \in TierSlots :
          heap = <<Desc(type, name,
                        PropsOf(<<KV(UrlKey, Str(<<"#">>)), KV(<<"i","s">>, Str(<<"p">>)),
                                  KV(SlotKey, slot)>>))>>
    /\ routes = <<Arr(<<Ref(1)>>)>>
    /\ calls = [r \in 1..Len(routes) |-> 0]
    /\ first = [r \in 1..Len(routes) |-> NoOutcome]
    /\ last = [r \in 1..Len(routes) |-> NoOutcome]
    /\ pre = heap
    /\ log = <<>>
    /\ req = 0
    /\ EscIdle
    /\ ClsIdle
    /\ UnitIdle

SpecTier == InitTier /\ [][Next]_vars

\* C20: compose resolves a descriptor in the table named by its lowercased
\* type: a function is invoked only for a descriptor whose lowercased type
\* is atom, molecule or organism and whose name that tier's table defines; a
\* descriptor of any other type resolves against no table, and compose
\* raises the not-found error for it.
C20_TierSelectedByType ==
    req # 0 =>
        LET d == pre[1]
            type == ToLowerCase(d.type)
        IN /\ \A i \in 1..Len(log) : type \in Tiers /\ d.name \in TierNames(type)
           /\ type \notin Tiers =>
                 /\ ~last[1].ok
                 /\ Contains(last[1].err.msg, <<"n","o","t"," ","f","o","u","n","d"," ","i","n"," ","l","i","b","r","a","r","y">>)

(***************************************************************************)
(* Slots that are not arrays.                                              *)
(***************************************************************************)
\* C21: a slot that is not an array reaches the render function as it is: a
\* string slot as that same string, an absent or null slot still absent or
\* null, so that no text made from the missing value is rendered.
C21_NonArraySlotAsIs ==
    req # 0 =>
        \A i \in 1..Len(log) :
            LET slot == PropOf(pre[log[i].node].props, SlotKey)
            IN /\ slot.t = "string" => log[i].slot = slot
               /\ slot.t \in {"undefined", "null"} =>
                     /\ PropOf(heap[log[i].node].props, SlotKey) = slot
                     /\ log[i].out.ok => /\ ~Contains(log[i].out.html, <<"u","n","d","e","f","i","n","e","d">>)
                                         /\ ~Contains(log[i].out.html, <<"n","u","l","l">>)

\* the components that declare slot as required, among those modelled
RequiresSlot == {<<"b","u","t","t","o","n">>, <<"l","i","n","k">>, <<"t","e","x","t">>, <<"h","e","a","d","e","r">>}

\* C22: composing a descriptor of a component that requires slot, with a
\* slot that is undefined, null or '', raises the component's
\* missing-required-props error and returns no HTML.
C22_RequiredSlotSurvives ==
    req # 0 =>
        \A i \in 1..Len(log) :
            LET d == pre[log[i].node]
                slot == PropOf(d.props, SlotKey)
            IN (/\ d.name \in RequiresSlot
                /\ d.name \in TierNames(ToLowerCase(d.type))
                /\ slot \in {Undef, Null, Str(<<>>)})
               => /\ ~log[i].out.ok
                  /\ Contains(log[i].out.err.msg, <<"M","i","s","s","i","n","g"," ","r","e","q","u","i","r","e","d"," ","p","r","o","p","s">>)

(***************************************************************************)
(* escapeHtml as one pass over the characters.                             *)
(***************************************************************************)
\* C23: escapeHtml(s) is the concatenation, over the characters of s in
\* order, of the entity of the character for & < > " ' and of the character
\* itself otherwise: no replacement escapes again an entity that an earlier
\* replacement produced.
C23_SinglePassSubstitution ==
    (escOut # Pending /\ escIn.t = "string") => escOut.v = EscapedText(escIn.v)

\* Witness for C23: a string where an ampersand follows another escaped
\* character has been escaped.
C23_Witness ==
    /\ escOut # Pending
    /\ escIn = Str(<<"<", "&", "\"">>)
    /\ escOut.v = EntLt \o EntAmp \o EntQuot

(***************************************************************************)
(* Specification SpecMerge: one call mergeClasses(x1, ..., xn).            *)
(***************************************************************************)
MaxMergeLen == 2      \* characters in one class string
MaxMergeInputs == 2   \* arguments of one call

MergeStrings == StringsUpTo({"a", "b", "&", " "}, MaxMergeLen)

MergeInputs ==
    {Str(s) : s \in MergeStrings}
        \cup {Arr(<<Str(<<"a">>), Str(<<"b">>)>>), Arr(<<Str(<<"b">>), Null, Str(<<"b">>)>>),
              Arr(<<Str(<<"a"," ","b">>), Str(<<"a">>)>>), Arr(<<>>),
              ObjMap(<<KV(<<"b">>, Bool(TRUE)), KV(<<"a">>, Bool(FALSE))>>),
              ObjMap(<<KV(<<"b">>, Bool(TRUE)), KV(<<"a","b">>, Bool(TRUE))>>),
              Null, Undef}

InitMerge ==
    /\ args \in UNION {[1..n -> MergeInputs] : n \in 0..MaxMergeInputs}
    /\ ret = Pending
    /\ ComposeIdle
    /\ EscIdle
    /\ ClsIdle

MergeClassesCall ==
    /\ ret.t = "pending"
    /\ ret' = [t |-> "mergeClasses", v |-> mergeClasses(args)]
    /\ UNCHANGED <<args, composeVars, escVars, clsVars>>

NextMerge == MergeClassesCall

SpecMerge == InitMerge /\ [][NextMerge]_vars

\* the class names one input lists, in input order: the whitespace-separated
\* names of a string and of each array element, the keys of a map that are on
MergeNamesOf(x) ==
    CASE x.t = "string" -> Tokens(x.v)
      [] x.t = "array" ->
            ConcatAll([i \in 1..Len(x.v) |-> IF x.v[i].t = "string" THEN Tokens(x.v[i].v) ELSE <<>>])
      [] x.t = "map" ->
            LET on == Keep(x.v, {i \in 1..Len(x.v) : x.v[i].val = Bool(TRUE)})
            IN [i \in 1..Len(on) |-> on[i].key]
      [] OTHER -> <<>>

\* C24: the output of mergeClasses lists each distinct class name of its
\* inputs exactly once, in order of first occurrence across the inputs, each
\* as the token the attribute escaper gives for the name, escaped once.
C24_MergedOnceEscapedOnce ==
    ret.t = "mergeClasses" =>
        LET names == FirstOccurrences(ConcatAll([i \in 1..Len(args) |-> MergeNamesOf(args[i])]))
        IN TokensOf(ret.v) = [i \in 1..Len(names) |-> escapeAttr(Str(names[i]))]

(***************************************************************************)
(* Specification SpecNest: compose on a tree three levels deep: the first  *)
(* descriptor holds the second in its slot, alone, after a text or before  *)
(* a sibling, and the second holds the third.                              *)
(***************************************************************************)
NestKinds ==
    {Desc(<<"o","r","g","a","n","i","s","m">>, <<"h","e","r","o">>, <<>>),
     Desc(<<"o","r","g","a","n","i","s","m">>, <<"h","e","r","o">>, <<KV(ClassNameKey, Str(<<"w","i","d","e">>))>>),
     Desc(<<"o","r","g","a","n","i","s","m">>, <<"h","e","a","d","e","r">>, <<>>),
     Desc(<<"a","t","o","m">>, <<"b","o","x">>, <<>>),
     Desc(<<"a","t","o","m">>, <<"t","e","x","t">>, <<KV(<<"i","s">>, Str(<<"p">>))>>),
     Desc(<<"a","t","o","m">>, <<"l","i","n","k">>, <<KV(UrlKey, Str(<<"#">>))>>),
     Desc(<<"a","t","o","m">>, <<"b","u","t","t","o","n">>, <<>>)}

\* the slot of the outer descriptor, over the middle one (object 2) and its
\* sibling (object 4)
OuterSlots == {Arr(<<Ref(2)>>), Arr(<<Str(<<"a","<","b">>), Ref(2)>>), Arr(<<Ref(2), Ref(4)>>)}

\* the sibling of the middle descriptor
Sibling == Desc(<<"a","t","o","m">>, <<"l","i","n","k">>, <<KV(UrlKey, Str(<<"#">>)), KV(SlotKey, Str(<<"B">>))>>)

\* the slot of the middle descriptor, over the inner one (object 3)
MiddleSlots == {Arr(<<Ref(3)>>), Arr(<<Ref(3), Str(<<"&">>)>>), Str(<<"<","i",">","x","<","/","i",">">>)}

InnerSlots ==
    {Str(<<"a","<","b">>), Str(<<"<","b",">","&","a","m","p",";","<","/","b",">">>), Arr(<<Str(<<"<">>)>>), Arr(<<Str(<<"x">>), Str(<<"\"">>)>>)}

InitNest ==
    /\ \E k1 \in NestKinds, k2 \in NestKinds, k3 \in NestKinds :
       \E s1 \in OuterSlots, s2 \in MiddleSlots, s3 \in InnerSlots :
          heap = <<[k1 EXCEPT !.props = WithSlot(@, s1)],
                   [k2 EXCEPT !.props = WithSlot(@, s2)],
                   [k3 EXCEPT !.props = WithSlot(@, s3)],
                   Sibling>>
    /\ routes = <<Arr(<<Ref(1)>>)>>
    /\ calls = [r \in 1..Len(routes) |-> 0]
    /\ first = [r \in 1..Len(routes) |-> NoOutcome]
    /\ last = [r \in 1..Len(routes) |-> NoOutcome]
    /\ pre = heap
    /\ log = <<>>
    /\ req = 0
    /\ EscIdle
    /\ ClsIdle
    /\ UnitIdle

SpecNest == InitNest /\ [][Next]_vars

\* the string the descriptor c rendered to before the i-th invocation
RenderedBefore(c, i) ==
    log[CHOOSE k \in 1..(i - 1) : log[k].node = c /\ \A m \in (k + 1)..(i - 1) : log[m].node # c].out.html

RECURSIVE PostOrder(_, _, _)
PostOrder(h, elems, depth) ==
    IF elems = <<>> THEN <<>>
    ELSE (IF Head(elems).t # "object" THEN <<>>
          ELSE LET id == Head(elems).v[1]
                   slot == PropOf(h[id].props, SlotKey)
               IN (IF slot.t = "array" THEN PostOrder(h, slot.v, depth + 1) ELSE <<>>)
                      \o <<[node |-> id, depth |-> depth]>>)
         \o PostOrder(h, Tail(elems), depth)

\* the invocations of the latest call: which descriptor, at which depth
Walk == [i \in 1..Len(log) |-> [node |-> log[i].node, depth |-> log[i].depth]]

IsPrefix(p, s) == Len(p) <= Len(s) /\ SubSeq(s, 1, Len(p)) = p

MaxRequests == 2    \* requests the server receives

Listening(responses) == [t |-> "listening", v |-> responses]
Crashed(responses) == [t |-> "crashed", v |-> responses]

\* the route table of the server: the components of route i are routes[i]
ServerPatterns == <<<<"/">>, <<"/","a","b","o","u","t">>>>

ServerTable ==
    [i \in 1..Len(routes) |->
        ObjMap(<<KV(NameKey, Str(ServerPatterns[i])),
                 KV(PatternKey, URLPattern(ServerPatterns[i])),
                 KV(MetaKey, ObjMap(<<KV(<<"t","i","t","l","e">>, Str(<<"T">>))>>)),
                 KV(ComponentsKey, routes[i])>>)]

\* new URL(req.url, `http://${req.headers.host}`) for the requests made
RequestUrls == {Origin \o <<"/">>, Origin \o <<"/","a","b","o","u","t">>, Origin \o <<"/","x">>, Origin \o <<"/","?","a","=","1">>}

NotFoundPage ==
    renderPage(Str(<<"<","h","1",">","4","0","4"," ","-"," ","P","a","g","e"," ","N","o","t"," ","F","o","u","n","d","<","/","h","1",">">>), ObjMap(<<KV(<<"t","i","t","l","e">>, Str(<<"4","0","4">>))>>))

\* res.writeHead(status, ...); res.end(body)
Response(url, status, body) == [url |-> url, status |-> status, body |-> body]

\* the listener from compose(route.components) on, compose having given res
Composed(url, route, res) ==
    /\ heap' = res.st.heap
    /\ log' = res.st.log
    /\ pre' = heap
    /\ IF res.out.ok
       THEN /\ ret' = Listening(Append(ret.v, Response(url.v, 200,
                                   renderPage(Str(res.out.html), PropOf(route.v, MetaKey)))))
            /\ args' = Tail(args)
       ELSE /\ ret' = Crashed(ret.v)
            /\ args' = args

\* the listener once router(url, routes) gave route
Routed(url, route) ==
    IF route # Null
    THEN Composed(url, route, compose([heap |-> heap, log |-> <<>>], PropOf(route.v, ComponentsKey)))
    ELSE /\ ret' = Listening(Append(ret.v, Response(url.v, 404, NotFoundPage)))
         /\ args' = Tail(args)
         /\ UNCHANGED <<heap, log, pre>>

\* a request arrives
Receive(u) ==
    /\ ret.t = "listening"
    /\ Len(args) + Len(ret.v) < MaxRequests
    /\ args' = Append(args, Str(u))
    /\ UNCHANGED <<ret, composeVars, escVars, clsVars>>

\* the listener runs for the oldest request
HandleRequest ==
    /\ ret.t = "listening"
    /\ args # <<>>
    /\ Routed(Head(args), router(Head(args), ServerTable))
    /\ UNCHANGED <<routes, calls, first, last, req, escVars, clsVars>>

ServerPages ==
    {Desc(<<"a","t","o","m">>, <<"t","e","x","t">>, <<KV(<<"i","s">>, Str(<<"p">>)), KV(SlotKey, Str(<<"H","i">>))>>),
     Desc(<<"a","t","o","m">>, <<"l","i","n","k">>, <<KV(SlotKey, Str(<<"H","o","m","e">>))>>),
     Desc(<<"a","t","o","m">>, <<"n","o","p","e">>, <<>>),
     Desc(<<"a","t","o","m">>, <<"b","u","t","t","o","n">>, <<KV(SlotKey, Arr(<<Str(<<"G">>), Str(<<"o">>)>>))>>)}

InitServer ==
    /\ \E d1 \in ServerPages, d2 \in ServerPages : heap = <<d1, d2>>
    /\ routes = <<Arr(<<Ref(1)>>), Arr(<<Ref(2)>>)>>
    /\ calls = [r \in 1..Len(routes) |-> 0]
    /\ first = [r \in 1..Len(routes) |-> NoOutcome]
    /\ last = [r \in 1..Len(routes) |-> NoOutcome]
    /\ pre = heap
    /\ log = <<>>
    /\ req = 0
    /\ args = <<>>
    /\ ret = Listening(<<>>)
    /\ EscIdle
    /\ ClsIdle

NextServer == (\E u \in RequestUrls : Receive(u)) \/ HandleRequest

SpecServer == InitServer /\ [][NextServer]_vars

\* the requests whose pathname a route of the table has
RoutedUrls == {Origin \o <<"/">>, Origin \o <<"/","a","b","o","u","t">>, Origin \o <<"/","?","a","=","1">>}

\* every response sent has the status of its request: 200 for a pathname of
\* the table, 404 with the not-found page for any other
StatusesRight ==
    \A i \in 1..Len(ret.v) :
        IF ret.v[i].url \in RoutedUrls
        THEN ret.v[i].status = 200
        ELSE /\ ret.v[i].status = 404
             /\ Contains(ret.v[i].body, <<"4","0","4"," ","-"," ","P","a","g","e"," ","N","o","t"," ","F","o","u","n","d">>)

\* the requests the listener ran for and ended without a response
Abandoned == IF ret.t = "crashed" THEN <<Head(args)>> ELSE <<>>

\* C27: the request handler answers every request with one response: each
\* response is 200 for a request the router matches and 404 with the
\* not-found page for one it does not match, and the listener never ends
\* for a request without having sent its response, a request for which
\* compose or renderPage raises included.
C27_EveryRequestAnswered ==
    /\ StatusesRight
    /\ Abandoned = <<>>

(***************************************************************************)
(* flesh/compose.js: the compose of the flesh variant.  Its three tier     *)
(* branches repeat the slot resolution; the organism and the molecule      *)
(* branch store the resolved string in component.props.slot, the atom      *)
(* branch does not.  A name the tier does not define gives null, a type    *)
(* that is no tier gives undefined, and join renders both as ''.           *)
(***************************************************************************)
RECURSIVE flesh_composeFrom(_, _, _, _)
RECURSIVE flesh_composeNext(_, _, _, _)
RECURSIVE flesh_composeOne(_, _)
RECURSIVE flesh_branch(_, _, _, _)
RECURSIVE flesh_slotChildren(_, _, _, _)
RECURSIVE flesh_slotNext(_, _, _, _)

\* components.map(...).join('\n    ')
flesh_composeFrom(st, components, i, outs) ==
    IF i > Len(components) THEN [st |-> st, out |-> Returns(JoinOutputs(outs))]
    ELSE flesh_composeNext(flesh_composeOne(st, components[i]), components, i, outs)

flesh_composeNext(r, components, i, outs) ==
    IF ~r.out.ok THEN r
    ELSE flesh_composeFrom(r.st, components, i + 1, Append(outs, r.out.html))

\* slot.map(child => typeof child === 'string' ? child : compose([child], params, query))
flesh_slotChildren(st, children, i, parts) ==
    IF i > Len(children) THEN [st |-> st, out |-> Returns(JoinChildren(parts))]
    ELSE IF children[i].t = "string"
    THEN flesh_slotChildren(st, children, i + 1, Append(parts, children[i].v))
    ELSE flesh_slotNext(flesh_composeFrom(st, <<children[i]>>, 1, <<>>), children, i, parts)

flesh_slotNext(r, children, i, parts) ==
    IF ~r.out.ok THEN r
    ELSE flesh_slotChildren(r.st, children, i + 1, Append(parts, r.out.html))

\* slotContent of a branch
flesh_slotContentOf(st, slot) ==
    IF slot.t = "array"
    THEN IF Len(slot.v) = 1 /\ slot.v[1].t = "string"
         THEN [st |-> st, out |-> Returns(slot.v[1].v)]
         ELSE flesh_slotChildren(st, slot.v, 1, <<>>)
    ELSE [st |-> st, out |-> Returns(JSToString(slot))]

\* what the call fn(component.props) leaves behind: the props the
\* descriptor holds, and the call in the log with the slotContent computed
flesh_called(st, id, fn, props, slotContent, out) ==
    [st |-> [heap |-> [st.heap EXCEPT ![id].props = props],
             log |-> Append(st.log, [node |-> id, fn |-> fn, props |-> props,
                                     slotContent |-> slotContent, out |-> out])],
     out |-> out]

\* the end of a branch: component.props.slot = slotContent in the organism
\* and the molecule branch only, then fn(component.props)
flesh_invoke(content, id, fn, storesSlot) ==
    IF ~content.out.ok THEN content
    ELSE flesh_called(content.st, id, fn,
                      IF storesSlot
                      THEN WriteBack(content.st.heap[id].props, Str(content.out.html))
                      ELSE content.st.heap[id].props,
                      content.out.html,
                      Invoke(fn, IF storesSlot
                                 THEN WriteBack(content.st.heap[id].props, Str(content.out.html))
                                 ELSE content.st.heap[id].props))

\* one tier branch: the function of the tier's table, or null
flesh_branch(st, id, fn, storesSlot) ==
    IF Truthy(fn)
    THEN flesh_invoke(flesh_slotContentOf(st, PropOf(st.heap[id].props, SlotKey)), id, fn, storesSlot)
    ELSE [st |-> st, out |-> Returns(<<>>)]

\* the three branches on the lowercased type
flesh_tiers(st, id) ==
    IF st.heap[id].type = <<"o","r","g","a","n","i","s","m">> THEN flesh_branch(st, id, Lookup(organisms, st.heap[id].name), TRUE)
    ELSE IF st.heap[id].type = <<"m","o","l","e","c","u","l","e">> THEN flesh_branch(st, id, Lookup(molecules, st.heap[id].name), TRUE)
    ELSE IF st.heap[id].type = <<"a","t","o","m">> THEN flesh_branch(st, id, Lookup(atoms, st.heap[id].name), FALSE)
    ELSE [st |-> st, out |-> Returns(<<>>)]

\* the map callback
flesh_composeOne(st, component) ==
    IF component.t # "object" THEN [st |-> st, out |-> Throws(TypeError)]
    ELSE flesh_tiers([st EXCEPT !.heap[component.v[1]].type = ToLowerCase(@)], component.v[1])

\* compose(components = [], params = {}, query = {})
flesh_compose(st, components) ==
    flesh_composeFrom(st, Dflt(components, Arr(<<>>)).v, 1, <<>>)

(***************************************************************************)
(* Specification SpecFlesh: the flesh compose on a descriptor and its      *)
(* child, the descriptor being of any tier.                                *)
(***************************************************************************)
FleshKinds ==
    {Desc(<<"a","t","o","m">>, <<"t","e","x","t">>, <<KV(<<"i","s">>, Str(<<"p">>))>>),
     Desc(<<"A","t","o","m">>, <<"b","o","x">>, <<>>),
     Desc(<<"a","t","o","m">>, <<"l","i","n","k">>, <<KV(UrlKey, Str(<<"#">>))>>),
     Desc(<<"a","t","o","m">>, <<"b","u","t","t","o","n">>, <<>>),
     Desc(<<"o","r","g","a","n","i","s","m">>, <<"h","e","a","d","e","r">>, <<>>),
     Desc(<<"O","r","g","a","n","i","s","m">>, <<"h","e","r","o">>, <<>>),
     Desc(<<"o","r","g","a","n","i","s","m">>, <<"t","e","x","t">>, <<KV(<<"i","s">>, Str(<<"p">>))>>),
     Desc(<<"m","o","l","e","c","u","l","e">>, <<"n","o","p","e">>, <<>>),
     Desc(<<"w","i","d","g","e","t">>, <<"t","e","x","t">>, <<KV(<<"i","s">>, Str(<<"p">>))>>)}

\* slots of the first descriptor; object 2 is its child
FleshSlots ==
    {Pending, Str(<<"H","i">>), Arr(<<Str(<<"H","i">>)>>), Arr(<<Str(<<"a">>), Str(<<"b">>)>>),
     Arr(<<Ref(2)>>), Arr(<<Str(<<"x">>), Ref(2)>>)}

FleshChildSlots == {Str(<<"B">>), Arr(<<Str(<<"a">>), Str(<<"b">>)>>)}

InitFlesh ==
    /\ \E k1 \in FleshKinds, k2 \in FleshKinds, s1 \in FleshSlots, s2 \in FleshChildSlots :
          heap = <<[k1 EXCEPT !.props = WithSlot(@, s1)], [k2 EXCEPT !.props = WithSlot(@, s2)]>>
    /\ routes \in {<<Arr(<<Ref(1)>>)>>, <<Arr(<<Ref(1), Ref(2)>>)>>}
    /\ calls = [r \in 1..Len(routes) |-> 0]
    /\ first = [r \in 1..Len(routes) |-> NoOutcome]
    /\ last = [r \in 1..Len(routes) |-> NoOutcome]
    /\ pre = heap
    /\ log = <<>>
    /\ req = 0
    /\ EscIdle
    /\ ClsIdle
    /\ UnitIdle

\* one request for route r: compose(route.components, params, query)
FleshCompose(r) ==
    /\ calls[r] < MaxCalls
    /\ Served(r, flesh_compose([heap |-> heap, log |-> <<>>], routes[r]))
    /\ pre' = heap
    /\ req' = r
    /\ calls' = [calls EXCEPT ![r] = @ + 1]
    /\ UNCHANGED <<routes, escVars, clsVars, unitVars>>

NextFlesh == \E r \in 1..Len(routes) : FleshCompose(r)

SpecFlesh == InitFlesh /\ [][NextFlesh]_vars

\* C28: in the flesh compose every render function, of whatever tier, is
\* called with the slot string resolved for its descriptor: the props it
\* receives carry that string as slot, and what it returns is what it
\* returns for those props.
C28_TierUniformSlot ==
    req # 0 =>
        \A i \in 1..Len(log) :
            /\ PropOf(log[i].props, SlotKey) = Str(log[i].slotContent)
            /\ log[i].out = Invoke(log[i].fn, WriteBack(log[i].props, Str(log[i].slotContent)))

(***************************************************************************)
(* flesh/utils/build/buildPathName.js: buildPathname.  The parameters of   *)
(* the pattern are the matches of /:(\w+)/g; each entry of data, in the    *)
(* order of Object.entries, replaces the first occurrence of ':' + key.    *)
(***************************************************************************)
WordChars == Letters \cup Digits \cup {"_"}

\* the last index of the run of \w characters that starts at i
RECURSIVE wordEnd(_, _)
wordEnd(s, i) ==
    IF i < Len(s) /\ s[i + 1] \in WordChars THEN wordEnd(s, i + 1) ELSE i

\* pattern.match(/:(\w+)/g): the matches at or after i, left to right, each
\* with its position and its text
RECURSIVE matchParams(_, _)
matchParams(pattern, i) ==
    IF i >= Len(pattern) THEN <<>>
    ELSE IF pattern[i] = ":" /\ pattern[i + 1] \in WordChars
    THEN LET e == wordEnd(pattern, i + 1)
         IN <<[at |-> i, text |-> SubSeq(pattern, i, e)]>> \o matchParams(pattern, e + 1)
    ELSE matchParams(pattern, i + 1)

\* pattern.match(/:(\w+)/g)?.map(p => p.slice(1)) || []
requiredParams(pattern) ==
    LET found == matchParams(pattern, 1)
    IN [i \in 1..Len(found) |-> Tail(found[i].text)]

\* param in data, for the own keys of a plain object
InData(param, data) == \E i \in 1..Len(data.v) : data.v[i].key = param

\* Object.keys(data)
KeysOf(data) == [i \in 1..Len(data.v) |-> data.v[i].key]

\* Object.entries(data).forEach(([key, value]) =>
\*     pathname = pathname.replace(':' + key, value)), from entry i on
RECURSIVE replaceEntries(_, _, _)
replaceEntries(pathname, entries, i) ==
    IF i > Len(entries) THEN pathname
    ELSE replaceEntries(StringReplace(pathname, <<":">> \o entries[i].key, JSToString(entries[i].val)),
                        entries, i + 1)

buildPathname(pattern, data) ==
    IF data.t # "map" THEN Throws(TypeError)
    ELSE LET required == requiredParams(pattern)
             missingParams == Keep(required, {i \in 1..Len(required) : ~InData(required[i], data)})
         IN IF Len(missingParams) > 0
            THEN Throws([kind |-> "Error",
                         msg |-> <<"M","i","s","s","i","n","g"," ","r","e","q","u","i","r","e","d"," ","r","o","u","t","e"," ","p","a","r","a","m","e","t","e","r","s",":"," ">> \o Join(missingParams, <<","," ">>)
                                 \o <<"."," ","P","a","t","t","e","r","n"," ","r","e","q","u","i","r","e","s",":"," ">> \o Join(required, <<","," ">>)
                                 \o <<"."," ","D","a","t","a"," ","h","a","s",":"," ">> \o Join(KeysOf(data), <<","," ">>),
                         props |-> <<>>])
            ELSE Returns(replaceEntries(pattern, data.v, 1))

(***************************************************************************)
(* Specification SpecPath: one call of buildPathname on a pattern and a    *)
(* data object.                                                            *)
(***************************************************************************)
MaxData == 2   \* most entries of the data object

PathPatterns ==
    {<<"/">>, <<"/","a","b","o","u","t">>, <<"/","b","l","o","g","/",":","p","o","s","t","i","d">>, <<"/",":","a","/",":","b">>, <<"/",":","i","d","/",":","i","d">>,
     <<"/",":","i","d","/",":","i","d","x">>, <<"/",":","i","d","x","/",":","i","d">>, <<"/",":","a","-",":","b",".","h","t","m","l">>, <<"/","t",":","/",":","a">>}

PathKeys == {<<"p","o","s","t","i","d">>, <<"a">>, <<"b">>, <<"i","d">>, <<"i","d","x">>}

PathValues == {Str(<<"7">>), Str(<<"x","-","y">>), Num(<<"4","2">>)}

\* data objects: object literals, so no key twice
PathData ==
    {ObjMap(m) : m \in {e \in StringsUpTo({KV(k, v) : k \in PathKeys, v \in PathValues}, MaxData) :
                           \A i, j \in 1..Len(e) : i # j => e[i].key # e[j].key}}

InitPath ==
    /\ \E p \in PathPatterns, d \in PathData : args = <<Str(p), d>>
    /\ ret = Pending
    /\ ComposeIdle
    /\ EscIdle
    /\ ClsIdle

BuildPathnameCall ==
    /\ ret.t = "pending"
    /\ ret' = [t |-> "buildPathname", v |-> buildPathname(args[1].v, args[2])]
    /\ UNCHANGED <<args, composeVars, escVars, clsVars>>

NextPath == BuildPathnameCall

SpecPath == InitPath /\ [][NextPath]_vars

\* the pattern with each of its ':name' placeholders, all at once, replaced
\* by the value data has for name
Substituted(pattern, data) ==
    LET found == matchParams(pattern, 1)
        pieceBefore(k) == SubSeq(pattern, IF k = 1 THEN 1 ELSE found[k - 1].at + Len(found[k - 1].text),
                                 found[k].at - 1)
        rest == IF found = <<>> THEN pattern
                ELSE SubSeq(pattern, found[Len(found)].at + Len(found[Len(found)].text), Len(pattern))
    IN ConcatAll([k \in 1..Len(found) |->
                     pieceBefore(k) \o JSToString(PropOf(data.v, Tail(found[k].text)))]) \o rest

\* the parameter names of the pattern that are no key of data
MissingRouteParams(pattern, data) ==
    {Tail(m.text) : m \in {matchParams(pattern, 1)[i] : i \in 1..Len(matchParams(pattern, 1))}}
        \ {data.v[i].key : i \in 1..Len(data.v)}

\* C30: buildPathname raises, naming the missing parameters, when a :param
\* of the pattern is no key of data; otherwise it returns the pattern with
\* every :param placeholder replaced by its own data value, whatever the
\* order of the keys, a name being a prefix of another, or a parameter
\* occurring more than once.
C30_EveryPlaceholderReplaced ==
    ret.t = "buildPathname" =>
        IF MissingRouteParams(args[1].v, args[2]) # {}
        THEN /\ ~ret.v.ok
             /\ \A n \in MissingRouteParams(args[1].v, args[2]) : Contains(ret.v.err.msg, n)
        ELSE /\ ret.v.ok
             /\ ret.v.html = Substituted(args[1].v, args[2])

\* the same on the calls where no parameter occurs twice and no key of data
\* is a proper prefix of a parameter name
C30_OnPlainPatterns ==
    LET names == requiredParams(args[1].v)
    IN (/\ \A i, j \in 1..Len(names) : i # j => names[i] # names[j]
        /\ \A i \in 1..Len(names), k \in 1..Len(args[2].v) :
              args[2].v[k].key = names[i] \/ ~HasPrefixAt(names[i], 1, args[2].v[k].key))
       => C30_EveryPlaceholderReplaced

(***************************************************************************)
(* The static build: build (flesh/utils/build/ssg.js) walks the route      *)
(* table, generateRoute writes one page, generateDynamicRoute one page per *)
(* data object, and the command line entry turns the result into the exit  *)
(* code.  A function of the route table is modelled by what it returns.    *)
(***************************************************************************)
ExternalDataKey == <<"e","x","t","e","r","n","a","l","D","a","t","a">>

\* a function value of the route table (components, externalData) that
\* returns result
Lambda(result) == [t |-> "lambda", v |-> <<result>>]

\* what a call or a step gives: a value, or the error it throws
GenOk(val) == [ok |-> TRUE, val |-> val, err |-> NoErr]
GenThrows(e) == [ok |-> FALSE, val |-> Undef, err |-> e]

\* the one element of a singleton set: TheOne({F(x) : x \in {e}}) is F(e)
\* with e computed once
TheOne(S) == CHOOSE x \in S : TRUE

\* f(...): a TypeError when f is no function
CallOf(f) == IF f.t = "lambda" THEN GenOk(f.v[1]) ELSE GenThrows(TypeError)

\* new Error(`Failed to generate ${route.name}: ${error.message}`)
FailedToGenerate(route, error) ==
    [kind |-> "Error",
     msg |-> <<"F","a","i","l","e","d"," ","t","o"," ","g","e","n","e","r","a","t","e"," ">> \o JSToString(PropOf(route.v, NameKey)) \o <<":"," ">> \o error.msg,
     props |-> <<>>]

\* writeFileSync on a path that cannot be written
WriteError == [kind |-> "Error", msg |-> <<"E","A","C","C","E","S",":"," ","p","e","r","m","i","s","s","i","o","n"," ","d","e","n","i","e","d">>, props |-> <<>>]

EndsWithHtml(s) == Len(s) >= 5 /\ SubSeq(s, Len(s) - 4, Len(s)) = <<".","h","t","m","l">>

\* path.join(outputDir, filePath)
pathJoin(outputDir, filePath) ==
    outputDir \o (IF filePath # <<>> /\ filePath[1] = "/" THEN filePath ELSE <<"/">> \o filePath)

\* the try block of generateRoute once compose(route.components) gave res
generateRouteWith(route, outputDir, writable, res) ==
    LET pathname == PropOf(route.v, PatternKey).v
        filePath == IF pathname = <<"/">> THEN <<"i","n","d","e","x",".","h","t","m","l">>
                    ELSE IF ~EndsWithHtml(pathname) THEN pathname \o <<"/","i","n","d","e","x",".","h","t","m","l">>
                    ELSE pathname
        fullPath == pathJoin(outputDir, filePath)
        meta == IF Truthy(PropOf(route.v, MetaKey)) THEN PropOf(route.v, MetaKey) ELSE ObjMap(<<>>)
    IN IF ~res.out.ok
       THEN [st |-> res.st, out |-> GenThrows(FailedToGenerate(route, res.out.err)), files |-> <<>>]
       ELSE IF ~writable
       THEN [st |-> res.st, out |-> GenThrows(FailedToGenerate(route, WriteError)), files |-> <<>>]
       ELSE [st |-> res.st,
             out |-> GenOk(ObjMap(<<KV(<<"p","a","t","h">>, Str(pathname)), KV(<<"f","i","l","e">>, Str(fullPath))>>)),
             files |-> <<[file |-> fullPath, html |-> renderPage(Str(res.out.html), meta)]>>]

\* generateRoute(route, outputDir): null for a route without a components
\* array
generateRoute(st, route, outputDir, writable) ==
    IF ~Truthy(PropOf(route.v, ComponentsKey)) \/ PropOf(route.v, ComponentsKey).t # "array"
    THEN [st |-> st, out |-> GenOk(Null), files |-> <<>>]
    ELSE TheOne({generateRouteWith(route, outputDir, writable, res) :
                    res \in {compose(st, PropOf(route.v, ComponentsKey))}})

\* { ...route, pattern: { ...route.pattern, pathname }, components:
\*   route.components(data), meta: { ...route.meta, ...data } }
routeVariant(route, pathname, components, data) ==
    ObjMap(spread(route.v,
                  <<KV(PatternKey, URLPattern(pathname)),
                    KV(ComponentsKey, components),
                    KV(MetaKey, ObjMap(spread(Dflt(PropOf(route.v, MetaKey), ObjMap(<<>>)).v, data.v)))>>))

\* the loop of generateDynamicRoute from data object i on;
\* generateDynamicNext is the loop once generateRoute gave result for i
RECURSIVE generateDynamicFrom(_, _, _, _, _, _, _, _)
RECURSIVE generateDynamicNext(_, _, _, _, _, _, _, _)
generateDynamicNext(result, route, dataSource, i, outputDir, writable, generated, files) ==
    IF ~result.out.ok
    THEN [st |-> result.st, out |-> result.out, files |-> files]
    ELSE generateDynamicFrom(result.st, route, dataSource, i + 1, outputDir, writable,
                             IF Truthy(result.out.val) THEN Append(generated, result.out.val)
                             ELSE generated,
                             files \o result.files)

generateDynamicFrom(st, route, dataSource, i, outputDir, writable, generated, files) ==
    IF i > Len(dataSource) THEN [st |-> st, out |-> GenOk(Arr(generated)), files |-> files]
    ELSE LET pathname == buildPathname(PropOf(route.v, PatternKey).v, dataSource[i])
             components == CallOf(PropOf(route.v, ComponentsKey))
         IN IF ~pathname.ok THEN [st |-> st, out |-> GenThrows(pathname.err), files |-> files]
            ELSE IF ~components.ok THEN [st |-> st, out |-> GenThrows(components.err), files |-> files]
            ELSE TheOne({generateDynamicNext(result, route, dataSource, i, outputDir, writable, generated, files) :
                            result \in {generateRoute(st, routeVariant(route, pathname.html, components.val,
                                                                       dataSource[i]),
                                                      outputDir, writable)}})

generateDynamicRoute(st, route, dataSource, outputDir, writable) ==
    generateDynamicFrom(st, route, dataSource, 1, outputDir, writable, <<>>, <<>>)

\* const res = await generateRoute(route, outputDir); if (res) { ... }
build_static(res) ==
    IF res.out.ok /\ Truthy(res.out.val)
    THEN [res EXCEPT !.out = GenOk(Arr(<<res.out.val>>))]
    ELSE IF res.out.ok THEN [res EXCEPT !.out = GenOk(Arr(<<>>))]
    ELSE res

\* the try block of build for one route: the results it pushes to generated,
\* or the error it throws
build_try(st, route, outputDir, writable) ==
    IF Includes(PropOf(route.v, PatternKey).v, ":")
    THEN LET data == CallOf(PropOf(route.v, ExternalDataKey))
         IN IF ~data.ok THEN [st |-> st, out |-> GenThrows(data.err), files |-> <<>>]
            ELSE generateDynamicRoute(st, route, <<data.val>>, outputDir, writable)
    ELSE TheOne({build_static(res) : res \in {generateRoute(st, route, outputDir, writable)}})

\* the catch block leaving errors as it is: the error is swallowed
build_catchSwallowing(b, route, res) ==
    IF res.out.ok
    THEN [b EXCEPT !.generated = @ \o res.out.val.v, !.files = @ \o res.files]
    ELSE [b EXCEPT !.files = @ \o res.files]

\* try { ... generated.push(...) } catch (error) { errors.push({route, error}) }
build_catch(b, route, res) ==
    IF res.out.ok
    THEN [b EXCEPT !.generated = @ \o res.out.val.v, !.files = @ \o res.files]
    ELSE [b EXCEPT !.errors = Append(@, [route |-> route, error |-> res.out.err]),
                   !.files = @ \o res.files]

(***************************************************************************)
(* Specification SpecBuild: one run of the build command on a route table. *)
(* ret.t is where the run is: pending, building (in the loop), resolved or *)
(* rejected (the promise of build), exited.                                *)
(***************************************************************************)
MaxTable == 2   \* most routes of the route table

BuildHeap ==
    <<Desc(<<"a","t","o","m">>, <<"t","e","x","t">>, <<KV(<<"i","s">>, Str(<<"p">>)), KV(SlotKey, Str(<<"H","i">>))>>),
      Desc(<<"a","t","o","m">>, <<"n","o","p","e">>, <<>>),
      Desc(<<"a","t","o","m">>, <<"b","u","t","t","o","n">>, <<KV(SlotKey, Arr(<<Str(<<"G">>), Str(<<"o">>)>>))>>)>>

BuildRoute(name, pathname, rest) ==
    ObjMap(<<KV(NameKey, Str(name)), KV(PatternKey, URLPattern(pathname))>> \o rest)

BuildRoutes ==
    {BuildRoute(<<"H","o","m","e">>, <<"/">>, <<KV(MetaKey, ObjMap(<<KV(<<"t","i","t","l","e">>, Str(<<"T">>))>>)), KV(ComponentsKey, Arr(<<Ref(1)>>))>>),
     BuildRoute(<<"D","o","c">>, <<"/","d","o","c",".","h","t","m","l">>, <<KV(ComponentsKey, Arr(<<Ref(1), Ref(3)>>))>>),
     BuildRoute(<<"A","b","o","u","t">>, <<"/","a","b","o","u","t">>, <<KV(ComponentsKey, Arr(<<Ref(2)>>))>>),
     BuildRoute(<<"B","l","a","n","k">>, <<"/","b","l","a","n","k">>, <<>>),
     BuildRoute(<<"F","n">>, <<"/","f","n">>, <<KV(ComponentsKey, Lambda(Arr(<<Ref(1)>>)))>>),
     BuildRoute(<<"P","o","s","t">>, <<"/","b","l","o","g","/",":","p","o","s","t","i","d">>,
                <<KV(MetaKey, ObjMap(<<KV(<<"t","i","t","l","e">>, Str(<<"T">>))>>)),
                  KV(ComponentsKey, Lambda(Arr(<<Ref(3)>>))),
                  KV(ExternalDataKey, Lambda(ObjMap(<<KV(<<"p","o","s","t","i","d">>, Num(<<"7">>))>>)))>>),
     BuildRoute(<<"D","o","w","n">>, <<"/","b","l","o","g","/",":","p","o","s","t","i","d">>,
                <<KV(ComponentsKey, Lambda(Arr(<<Ref(3)>>))), KV(ExternalDataKey, Lambda(Undef))>>),
     BuildRoute(<<"N","o","D","a","t","a">>, <<"/","n","/",":","i","d">>, <<KV(ComponentsKey, Lambda(Arr(<<Ref(1)>>)))>>),
     BuildRoute(<<"N","o","L","i","s","t">>, <<"/","l","/",":","i","d">>,
                <<KV(ComponentsKey, Lambda(Undef)),
                  KV(ExternalDataKey, Lambda(ObjMap(<<KV(<<"i","d">>, Str(<<"a">>))>>)))>>),
     BuildRoute(<<"S","t","a","t","i","c">>, <<"/","s","/",":","i","d">>,
                <<KV(ComponentsKey, Arr(<<Ref(1)>>)),
                  KV(ExternalDataKey, Lambda(ObjMap(<<KV(<<"i","d">>, Str(<<"a">>))>>)))>>),
     BuildRoute(<<"S","h","o","r","t">>, <<"/",":","a","/",":","b">>,
                <<KV(ComponentsKey, Lambda(Arr(<<Ref(1)>>))),
                  KV(ExternalDataKey, Lambda(ObjMap(<<KV(<<"a">>, Str(<<"x">>))>>)))>>)}

\* const generated = []; const errors = []; with the files written so far
BuildStarted(prepared) ==
    [generated |-> <<>>, errors |-> <<>>, files |-> <<>>, prepared |-> prepared, code |-> -1]

InitBuild ==
    /\ heap = BuildHeap
    /\ routes \in StringsUpTo(BuildRoutes, MaxTable)
    /\ calls = [r \in 1..Len(routes) |-> 0]
    /\ first = [r \in 1..Len(routes) |-> NoOutcome]
    /\ last = [r \in 1..Len(routes) |-> NoOutcome]
    /\ pre = heap
    /\ log = <<>>
    /\ req = 0
    /\ args = <<Str(<<"p","u","b","l","i","c">>)>>
    /\ ret = Pending
    /\ EscIdle
    /\ ClsIdle

\* fs.rmSync and fs.mkdirSync of the output directory succeed
PrepareOutputDir ==
    /\ ret.t = "pending"
    /\ ret' = [t |-> "building", v |-> <<BuildStarted(TRUE)>>]
    /\ UNCHANGED <<args, composeVars, escVars, clsVars>>

\* fs.rmSync or fs.mkdirSync throws: build rejects before its loop
PrepareFails ==
    /\ ret.t = "pending"
    /\ ret' = [t |-> "rejected", v |-> <<BuildStarted(FALSE)>>]
    /\ UNCHANGED <<args, composeVars, escVars, clsVars>>

\* one turn of the loop for route r, its try block having given res
Attempted(r, res) ==
    /\ heap' = res.st.heap
    /\ log' = res.st.log
    /\ pre' = heap
    /\ req' = r
    /\ calls' = [calls EXCEPT ![r] = @ + 1]
    /\ last' = [last EXCEPT ![r] = res.out]
    /\ ret' = [ret EXCEPT !.v = <<build_catch(ret.v[1], routes[r], res)>>]

\* for (const route of routes): the next route of the table
AttemptRoute ==
    /\ ret.t = "building"
    /\ req < Len(routes)
    /\ \E writable \in BOOLEAN :
          \E res \in {build_try([heap |-> heap, log |-> <<>>], routes[req + 1], args[1].v, writable)} :
              Attempted(req + 1, res)
    /\ UNCHANGED <<routes, first, args, escVars, clsVars>>

\* return ({generated, errors})
BuildReturns ==
    /\ ret.t = "building"
    /\ req = Len(routes)
    /\ ret' = [ret EXCEPT !.t = "resolved"]
    /\ UNCHANGED <<args, composeVars, escVars, clsVars>>

\* .then(result => process.exit(result.errors.length > 0 ? 1 : 0))
\* .catch(error => { console.error(error); process.exit(1) })
ProcessExit ==
    /\ ret.t \in {"resolved", "rejected"}
    /\ ret' = [t |-> "exited",
               v |-> <<[ret.v[1] EXCEPT !.code = IF ret.t = "rejected" THEN 1
                                                 ELSE IF Len(ret.v[1].errors) > 0 THEN 1 ELSE 0]>>]
    /\ UNCHANGED <<args, composeVars, escVars, clsVars>>

NextBuild == PrepareOutputDir \/ PrepareFails \/ AttemptRoute \/ BuildReturns \/ ProcessExit

SpecBuild == InitBuild /\ [][NextBuild]_vars

\* the routes attempted so far whose try block threw, in table order
ThrownRoutes == Keep([r \in 1..req |-> r], {r \in 1..req : ~last[r].ok})

\* a route that has no components array to compose: for a route with a
\* ':' in its pathname the array is what its components function returns
HasNoComponents(route) ==
    LET c == PropOf(route.v, ComponentsKey)
    IN IF Includes(PropOf(route.v, PatternKey).v, ":") /\ c.t = "lambda"
       THEN c.v[1].t # "array"
       ELSE c.t # "array"

\* once the output directory is prepared the routes are attempted one by
\* one in table order, each once, and after the loop all of them; errors
\* holds the routes whose generation threw, with what they threw, generated
\* the result of each route that was generated, and a route in neither list
\* has no components
RoutesAccounted ==
    LET b == ret.v[1]
    IN /\ \A r \in 1..Len(routes) : calls[r] = IF r <= req THEN 1 ELSE 0
       /\ ret.t \in {"resolved", "exited"} /\ b.prepared => req = Len(routes)
       /\ b.errors = [k \in 1..Len(ThrownRoutes) |->
                         [route |-> routes[ThrownRoutes[k]], error |-> last[ThrownRoutes[k]].err]]
       /\ b.generated = ConcatAll([r \in 1..req |-> IF last[r].ok THEN last[r].val.v ELSE <<>>])
       /\ \A r \in 1..req :
             last[r].ok =>
                 /\ Len(last[r].val.v) <= 1
                 /\ last[r].val.v = <<>> => HasNoComponents(routes[r])
       /\ \A r \in 1..req :
             ~Includes(PropOf(routes[r].v, PatternKey).v, ":") /\ HasNoComponents(routes[r])
                 => last[r] = GenOk(Arr(<<>>))
       /\ [k \in 1..Len(b.files) |-> Str(b.files[k].file)]
              = [k \in 1..Len(b.generated) |-> PropOf(b.generated[k].v, <<"f","i","l","e">>)]

\* C29 (as amended): when the output directory can be prepared, the build
\* attempts every route of the table exactly once, in order; a route whose
\* generation throws is recorded in errors and the following routes are
\* still generated; each route ends in exactly one of generated, errors or
\* skipped; the process exits with code 1 if and only if errors is
\* non-empty or the output directory could not be prepared, in which case
\* no route is attempted.
C29_BuildAccountsForEveryRoute ==
    ret.t # "pending" =>
        /\ RoutesAccounted
        /\ ~ret.v[1].prepared => req = 0
        /\ ret.t = "exited" =>
              /\ ret.v[1].code \in {0, 1}
              /\ ret.v[1].code = 1 <=> (ret.v[1].errors # <<>> \/ ~ret.v[1].prepared)

\* C29 as stated: every route of the table is attempted and the process
\* exits with code 1 if and only if errors is non-empty.
C29_ExitCodeOnlyFromErrors ==
    ret.t = "exited" =>
        /\ RoutesAccounted
        /\ req = Len(routes)
        /\ ret.v[1].code = 1 <=> ret.v[1].errors # <<>>

\* C29 witness: the build of a two-route table has exited with code 1, the
\* first route in errors and the second generated after it.
C29_Witness ==
    /\ ret.t = "exited"
    /\ ret.v[1].prepared
    /\ Len(routes) = 2
    /\ ~last[1].ok
    /\ Len(ret.v[1].errors) = 1
    /\ Len(ret.v[1].generated) = 1
    /\ ret.v[1].code = 1

\* the build exits with code 0 after a route was skipped and one generated
C29_WitnessSkipped ==
    /\ ret.t = "exited"
    /\ Len(routes) = 2
    /\ last[1] = GenOk(Arr(<<>>))
    /\ Len(ret.v[1].generated) = 1
    /\ ret.v[1].code = 0

====
